---- MODULE Spec2Model ----
(***************************************************************************)
(* Model of the DHCP device classification pipeline of smahorker/DHCP:     *)
(* the rule-based fallback classifier (enhanced_classifier.py), the        *)
(* resolution/routing engine and the per-device aggregator                 *)
(* (dhcp_device_analyzer.py) and the oracle client (fingerbank_api.py).    *)
(***************************************************************************)
EXTENDS Integers, Sequences, FiniteSets, TLC

(***************************************************************************)
(* Python values.  None is a distinguished value; the code tests optional  *)
(* strings by truthiness, so None and "" are both falsy.                   *)
(***************************************************************************)
None == "<None>"

Truthy(x) == x # None /\ x # ""

(***************************************************************************)
(* str.lower() and the substring test  `p in s`.                           *)
(***************************************************************************)
UpperChars == "ABCDEFGHIJKLMNOPQRSTUVWXYZ"

LowerChars == "abcdefghijklmnopqrstuvwxyz"

LowerChar(c) ==
    LET hits == {k \in 1..26 : SubSeq(UpperChars, k, k) = c}
    IN  IF hits = {} THEN c
        ELSE LET k == CHOOSE k \in hits : TRUE IN SubSeq(LowerChars, k, k)

RECURSIVE lower(_)
lower(s) ==
    IF Len(s) = 0 THEN ""
    ELSE LowerChar(SubSeq(s, 1, 1)) \o lower(SubSeq(s, 2, Len(s)))

Contains(s, p) ==
    \E i \in 1..(Len(s) - Len(p) + 1) : SubSeq(s, i, i + Len(p) - 1) = p

\* any(p in s for p in patterns)
AnyIn(patterns, s) == \E k \in 1..Len(patterns) : Contains(s, patterns[k])

IsDigit(c) == \E k \in 1..10 : SubSeq("0123456789", k, k) = c

(***************************************************************************)
(* Regular expressions as used by the rule tables.  A pattern is a         *)
(* sequence of atoms:  L(x) a literal,  G  `.*`,  D  `[0-9]`,  DP          *)
(* `[0-9]+`,  Q  `.?`,  O(x)  `(?:x)?`  and  A(alts)  an alternation       *)
(* `(a|b|..)` whose alternatives are patterns.  All tables are matched     *)
(* case-insensitively, which the model does by matching lower(s) against   *)
(* lower-case literals.  Hostnames hold no newline, so `.` is any          *)
(* character.                                                              *)
(***************************************************************************)
L(x) == <<"L", x>>

G == <<"G">>

D == <<"D">>

DP == <<"D+">>

Q == <<"?">>

O(x) == <<"O", x>>

A(alts) == <<"A", alts>>

\* does pattern p match s from position i on (an unanchored end: a prefix
\* of s[i..] is matched, as re.match and re.search do)
RECURSIVE MatchAt(_, _, _)
MatchAt(s, i, p) ==
    IF p = <<>> THEN TRUE
    ELSE LET a == Head(p)
             r == Tail(p)
         IN  CASE a[1] = "L" ->
                     /\ i + Len(a[2]) - 1 <= Len(s)
                     /\ SubSeq(s, i, i + Len(a[2]) - 1) = a[2]
                     /\ MatchAt(s, i + Len(a[2]), r)
               [] a[1] = "G" -> \E j \in i..(Len(s) + 1) : MatchAt(s, j, r)
               [] a[1] = "D" ->
                     /\ i <= Len(s)
                     /\ IsDigit(SubSeq(s, i, i))
                     /\ MatchAt(s, i + 1, r)
               [] a[1] = "D+" ->
                     /\ i <= Len(s)
                     /\ IsDigit(SubSeq(s, i, i))
                     /\ (MatchAt(s, i + 1, r) \/ MatchAt(s, i + 1, p))
               [] a[1] = "?" ->
                     \/ MatchAt(s, i, r)
                     \/ (i <= Len(s) /\ MatchAt(s, i + 1, r))
               [] a[1] = "O" ->
                     \/ MatchAt(s, i, r)
                     \/ /\ i + Len(a[2]) - 1 <= Len(s)
                        /\ SubSeq(s, i, i + Len(a[2]) - 1) = a[2]
                        /\ MatchAt(s, i + Len(a[2]), r)
               [] a[1] = "A" ->
                     \E k \in 1..Len(a[2]) : MatchAt(s, i, a[2][k] \o r)

\* (?i).*x.*   and   (?i).*x.*y.*
Has(x) == <<G, L(x), G>>

Has2(x, y) == <<G, L(x), G, L(y), G>>

\* first value of an ordered (pattern, value) table whose pattern matches
\* the lower-cased string sl at its start (re.match)
RECURSIVE FirstMatchFrom(_, _, _)
FirstMatchFrom(table, sl, k) ==
    IF k > Len(table) THEN None
    ELSE IF MatchAt(sl, 1, table[k][1]) THEN table[k][2]
    ELSE FirstMatchFrom(table, sl, k + 1)

FirstMatch(table, s) == FirstMatchFrom(table, lower(s), 1)

(***************************************************************************)
(* EnhancedFallbackClassifier: the static rule tables, in source order     *)
(* (Python dicts iterate in insertion order; the first match wins).        *)
(***************************************************************************)
hostname_patterns ==
    << <<<<G, L("win"), O("dows"), G>>, "Windows">>,
       <<Has("desktop"), "Windows">>,
       <<Has("pc"), "Windows">>,
       <<Has("workstation"), "Windows">>,
       <<Has("macbook"), "macOS">>,
       <<Has("imac"), "macOS">>,
       <<Has("mac"), "macOS">>,
       <<Has("iphone"), "iOS">>,
       <<Has("ipad"), "iPadOS">>,
       <<Has("apple"), "iOS/macOS">>,
       <<Has("android"), "Android">>,
       <<Has("galaxy"), "Android">>,
       <<Has("pixel"), "Android">>,
       <<Has("oneplus"), "Android">>,
       <<Has("samsung"), "Android">>,
       <<Has("ring"), "Linux">>,
       <<Has("nest"), "Linux">>,
       <<Has("echo"), "Fire OS">>,
       <<Has("alexa"), "Fire OS">>,
       <<Has("firetv"), "Fire OS">>,
       <<Has2("fire", "tv"), "Fire OS">>,
       <<Has("chromecast"), "Chrome OS">>,
       <<Has("esp_"), "Embedded OS">>,
       <<Has("esp32"), "Embedded OS">>,
       <<Has("esp8266"), "Embedded OS">>,
       <<<<G, L("ps"), D, G>>, "PlayStation OS">>,
       <<Has("playstation"), "PlayStation OS">>,
       <<Has("xbox"), "Xbox OS">>,
       <<Has("nintendo"), "Nintendo OS">>,
       <<Has("printer"), "Embedded OS">>,
       <<Has2("hp", "print"), "Embedded OS">>,
       <<Has2("canon", "print"), "Embedded OS">>,
       <<Has2("epson", "print"), "Embedded OS">>,
       <<Has("ubuntu"), "Linux">>,
       <<Has("debian"), "Linux">>,
       <<Has("linux"), "Linux">>,
       <<Has("raspberrypi"), "Linux">>,
       <<Has("raspberry"), "Linux">>,
       <<Has("pfsense"), "FreeBSD">>,
       <<Has("freebsd"), "FreeBSD">>,
       <<Has("router"), "RouterOS/Linux">>,
       <<Has("gateway"), "Linux">>,
       <<Has("switch"), "Linux">>,
       <<Has2("access", "point"), "Linux">> >>

vendor_class_patterns ==
    << <<<<L("msft"), G>>, "Windows">>,
       <<<<L("microsoft"), G>>, "Windows">>,
       <<<<L("android"), G>>, "Android">>,
       <<<<L("aaplbm"), G>>, "macOS">>,
       <<<<L("aaplphone"), G>>, "iOS">>,
       <<<<L("apple"), G>>, "iOS/macOS">>,
       <<<<L("linux"), G>>, "Linux">>,
       <<<<L("ubuntu"), G>>, "Linux">> >>

device_type_patterns ==
    << <<Has("iphone"), "Phone">>,
       <<Has("ipad"), "Tablet">>,
       <<Has("galaxy"), "Phone">>,
       <<Has("pixel"), "Phone">>,
       <<Has2("ring", "camera"), "Smart Camera">>,
       <<Has2("ring", "doorbell"), "Smart Camera">>,
       <<Has2("nest", "thermostat"), "Smart Thermostat">>,
       <<Has2("nest", "cam"), "Smart Camera">>,
       <<Has2("echo", "dot"), "Smart Speaker">>,
       <<Has2("echo", "show"), "Smart Speaker">>,
       <<Has2("echo", "studio"), "Smart Speaker">>,
       <<Has("alexa"), "Smart Speaker">>,
       <<Has("chromecast"), "Streaming Device">>,
       <<Has2("firetv", "stick"), "Streaming Device">>,
       <<Has2("fire", "tv"), "Streaming Device">>,
       <<Has2("apple", "tv"), "Streaming Device">>,
       <<Has("roku"), "Streaming Device">>,
       <<Has2("hue", "bridge"), "Smart Hub">>,
       <<Has("hue"), "Smart Lighting">>,
       <<Has2("philips", "hue"), "Smart Lighting">>,
       <<<<G, L("ps"), D, G, L("console"), G>>, "Gaming Console">>,
       <<<<G, L("ps"), D, G>>, "Gaming Console">>,
       <<Has("playstation"), "Gaming Console">>,
       <<Has("xbox"), "Gaming Console">>,
       <<Has("nintendo"), "Gaming Console">>,
       <<Has("printer"), "Printer">>,
       <<Has2("hp", "print"), "Printer">>,
       <<Has2("canon", "print"), "Printer">>,
       <<Has2("epson", "print"), "Printer">>,
       <<Has("esp_"), "IoT Device">>,
       <<Has("esp32"), "IoT Device">>,
       <<Has("esp8266"), "IoT Device">>,
       <<Has("raspberry"), "Single Board Computer">>,
       <<Has("raspberrypi"), "Single Board Computer">>,
       <<<<G, A(<<<<L("android")>>, <<L("mobile")>>, <<L("phone")>>>>), G>>, "Phone">>,
       <<<<G, A(<<<<L("tablet")>>>>), G>>, "Tablet">>,
       <<<<G, A(<<<<L("macbook")>>, <<L("laptop")>>, <<L("notebook")>>>>), G>>, "Laptop">>,
       <<<<G, A(<<<<L("desktop")>>, <<L("pc")>>, <<L("workstation")>>, <<L("imac")>>>>), G>>, "Desktop">>,
       <<<<G, A(<<<<L("server")>>>>), G>>, "Server">>,
       <<<<G, A(<<<<L("router")>>, <<L("gateway")>>, <<L("switch")>>, <<L("access"), Q, L("point")>>>>), G>>, "Network Device">>,
       <<<<G, A(<<<<L("camera")>>, <<L("cam")>>>>), G>>, "Camera">>,
       <<<<G, A(<<<<L("tv")>>, <<L("television")>>, <<L("smart"), Q, L("tv")>>>>), G>>, "Smart TV">> >>

dhcp_fingerprint_patterns ==
    << <<"1,15,3,6,44,46,47,31,33,121,249,43", "Windows 10/11">>,
       <<"1,15,3,6,44,46,47,31,33,249,43", "Windows 10">>,
       <<"1,3,6,15,31,33,43,44,46,47,119,121,249,252", "Windows 7/8">>,
       <<"1,121,3,6,15,119,252,95,44,46", "iOS/macOS">>,
       <<"1,3,6,15,119,95,252,44,46,47", "macOS">>,
       <<"1,3,6,15,26,28,51,58,59,43", "Android">>,
       <<"1,3,6,12,15,26,28,51,58,59", "Android">>,
       <<"1,28,2,3,15,6,119,12,44,47,26,121,42", "Linux">> >>

vendor_rules ==
    << <<"apple", [operating_system |-> "iOS/macOS", device_type |-> "Computer"]>>,
       <<"samsung", [operating_system |-> "Android", device_type |-> "Phone"]>>,
       <<"microsoft", [operating_system |-> "Windows", device_type |-> "Desktop"]>>,
       <<"google", [operating_system |-> "Android", device_type |-> "Phone"]>>,
       <<"amazon", [operating_system |-> "Fire OS", device_type |-> "Tablet"]>>,
       <<"hp", [operating_system |-> "Windows", device_type |-> "Printer"]>>,
       <<"dell", [operating_system |-> "Windows", device_type |-> "Laptop"]>>,
       <<"netgear", [operating_system |-> "RouterOS/Linux", device_type |-> "Network Device"]>>,
       <<"linksys", [operating_system |-> "RouterOS/Linux", device_type |-> "Network Device"]>>,
       <<"cisco", [operating_system |-> "IOS", device_type |-> "Network Device"]>>,
       <<"ubiquiti", [operating_system |-> "UniFi OS", device_type |-> "Network Device"]>> >>

iot_device_patterns ==
    << <<<<A(<<<<L("google"), G, L("home")>>, <<L("nest"), G, L("mini")>>, <<L("nest"), G, L("hub")>>>>)>>, [operating_system |-> "Google Assistant", device_type |-> "Smart Speaker"]>>,
       <<<<A(<<<<L("echo"), G, L("dot")>>, <<L("echo"), G, L("show")>>, <<L("echo"), G, L("studio")>>, <<L("alexa"), G, L("device")>>>>)>>, [operating_system |-> "Fire OS", device_type |-> "Smart Speaker"]>>,
       <<<<A(<<<<L("homepod")>>, <<L("apple"), G, L("speaker")>>>>)>>, [operating_system |-> "audioOS", device_type |-> "Smart Speaker"]>>,
       <<<<A(<<<<L("ring"), G, L("camera")>>, <<L("ring"), G, L("doorbell")>>>>)>>, [operating_system |-> "Linux", device_type |-> "Smart Camera"]>>,
       <<<<A(<<<<L("nest"), G, L("cam")>>, <<L("google"), G, L("cam")>>>>)>>, [operating_system |-> "Linux", device_type |-> "Smart Camera"]>>,
       <<<<A(<<<<L("arlo"), G, L("cam")>>, <<L("arlo"), G, L("camera")>>>>)>>, [operating_system |-> "Linux", device_type |-> "Smart Camera"]>>,
       <<<<A(<<<<L("wyze"), G, L("cam")>>, <<L("wyze"), G, L("camera")>>>>)>>, [operating_system |-> "Linux", device_type |-> "Smart Camera"]>>,
       <<<<A(<<<<L("blink"), G, L("cam")>>, <<L("blink"), G, L("camera")>>>>)>>, [operating_system |-> "Linux", device_type |-> "Smart Camera"]>>,
       <<<<A(<<<<L("nest"), G, L("thermostat")>>, <<L("google"), G, L("thermostat")>>>>)>>, [operating_system |-> "Linux", device_type |-> "Smart Thermostat"]>>,
       <<<<A(<<<<L("ecobee")>>>>)>>, [operating_system |-> "Linux", device_type |-> "Smart Thermostat"]>>,
       <<<<A(<<<<L("honeywell"), G, L("thermostat")>>>>)>>, [operating_system |-> "Linux", device_type |-> "Smart Thermostat"]>>,
       <<<<A(<<<<L("kasa"), G, L("plug")>>, <<L("smart"), G, L("plug")>>, <<L("tp"), G, L("link"), G, L("plug")>>>>)>>, [operating_system |-> "Linux", device_type |-> "Smart Plug"]>>,
       <<<<A(<<<<L("wemo"), G, L("plug")>>, <<L("belkin"), G, L("plug")>>>>)>>, [operating_system |-> "Linux", device_type |-> "Smart Plug"]>>,
       <<<<A(<<<<L("amazon"), G, L("plug")>>, <<L("alexa"), G, L("plug")>>>>)>>, [operating_system |-> "Linux", device_type |-> "Smart Plug"]>>,
       <<<<A(<<<<L("philips"), G, L("hue")>>, <<L("hue"), G, L("bridge")>>, <<L("hue"), G, L("bulb")>>>>)>>, [operating_system |-> "Linux", device_type |-> "Smart Lighting"]>>,
       <<<<A(<<<<L("lifx"), G, L("bulb")>>, <<L("lifx"), G, L("strip")>>>>)>>, [operating_system |-> "Linux", device_type |-> "Smart Lighting"]>>,
       <<<<A(<<<<L("esp"), G, DP>>, <<L("esp_"), DP>>, <<L("arduino"), G, DP>>>>)>>, [operating_system |-> "Embedded OS", device_type |-> "IoT Device"]>>,
       <<<<A(<<<<L("nodemcu")>>, <<L("wemos")>>, <<L("lolin")>>>>)>>, [operating_system |-> "Embedded OS", device_type |-> "IoT Device"]>> >>

high_specificity_patterns ==
    << Has("iphone"),
       Has("ipad"),
       Has("galaxy"),
       Has("pixel"),
       Has2("ring", "camera"),
       Has2("nest", "thermostat"),
       Has("chromecast"),
       Has("firetv"),
       Has2("fire", "tv"),
       <<G, L("ps"), D, G>>,
       Has("xbox"),
       Has("printer"),
       Has2("hp", "print"),
       Has("echo"),
       Has("alexa"),
       Has2("smart", "tv"),
       Has("smart-tv"),
       Has("tv-"),
       Has("-tv") >>

(***************************************************************************)
(* EnhancedFallbackClassifier: the single-signal classifiers.              *)
(***************************************************************************)
classify_by_hostname(hostname) ==
    IF ~Truthy(hostname)
    THEN [operating_system |-> None, device_type |-> None]
    ELSE LET hostname_lower == lower(hostname)
         IN  [operating_system |->
                  FirstMatchFrom(hostname_patterns, hostname_lower, 1),
              device_type |->
                  FirstMatchFrom(device_type_patterns, hostname_lower, 1)]

classify_by_vendor_class(vendor_class) ==
    IF ~Truthy(vendor_class) THEN None
    ELSE FirstMatch(vendor_class_patterns, vendor_class)

\* str.replace(' ', '')
RECURSIVE RemoveSpaces(_)
RemoveSpaces(s) ==
    IF Len(s) = 0 THEN ""
    ELSE (IF SubSeq(s, 1, 1) = " " THEN "" ELSE SubSeq(s, 1, 1))
         \o RemoveSpaces(SubSeq(s, 2, Len(s)))

classify_by_dhcp_fingerprint(dhcp_fingerprint) ==
    IF ~Truthy(dhcp_fingerprint) THEN None
    ELSE LET fp == RemoveSpaces(dhcp_fingerprint)
             hits == {k \in 1..Len(dhcp_fingerprint_patterns) :
                         fp = dhcp_fingerprint_patterns[k][1]}
         IN  IF hits = {} THEN None
             ELSE dhcp_fingerprint_patterns[CHOOSE k \in hits :
                                              \A j \in hits : k <= j][2]

\* the IoT signatures searched in the hostname and in the vendor
IotSignatureHostnameOrVendor(hostname, vendor) ==
    LET text == lower((IF Truthy(hostname) THEN hostname ELSE "") \o " "
                      \o (IF Truthy(vendor) THEN vendor ELSE ""))
        hits == {k \in 1..Len(iot_device_patterns) :
                    MatchAt(text, 1, <<G>> \o iot_device_patterns[k][1])}
    IN  IF hits = {}
        THEN [operating_system |-> None, device_type |-> None]
        ELSE iot_device_patterns[CHOOSE k \in hits : \A j \in hits : k <= j][2]

_classify_by_iot_signature(hostname, vendor) ==
    IF ~Truthy(hostname)
    THEN [operating_system |-> None, device_type |-> None]
    ELSE LET hostname_lower == lower(hostname)
             hits == {k \in 1..Len(iot_device_patterns) :
                         MatchAt(hostname_lower, 1,
                                 <<G>> \o iot_device_patterns[k][1])}
         IN  IF hits = {}
             THEN [operating_system |-> None, device_type |-> None]
             ELSE iot_device_patterns[CHOOSE k \in hits :
                                        \A j \in hits : k <= j][2]

_classify_by_vendor_rules(vendor) ==
    IF ~Truthy(vendor)
    THEN [operating_system |-> None, device_type |-> None]
    ELSE LET vendor_lower == lower(vendor)
             hits == {k \in 1..Len(vendor_rules) :
                         Contains(vendor_lower, vendor_rules[k][1])}
         IN  IF hits = {}
             THEN [operating_system |-> None, device_type |-> None]
             ELSE vendor_rules[CHOOSE k \in hits : \A j \in hits : k <= j][2]

(***************************************************************************)
(* _classify_by_hardware_manufacturer_context: the manufacturer tables.    *)
(* A missing indicator list of the source is the empty list here (the      *)
(* code reads it with .get(..., []) and skips an empty list).              *)
(***************************************************************************)
pure_networking_vendors ==
    <<"zyxel", "ubiquiti", "mikrotik", "juniper", "aruba", "meraki">>

multi_product_vendors ==
    << [key |-> "tp-link",
        networking_indicators |-> <<"udhcp", "busybox", "dhcpcd", "openwrt">>,
        iot_indicators |-> <<"kasa", "smart", "plug", "bulb">>,
        default |-> "Network Device"],
       [key |-> "netgear",
        networking_indicators |-> <<"udhcp", "busybox", "dhcpcd">>,
        iot_indicators |-> <<"arlo", "orbi">>,
        default |-> "Network Device"],
       [key |-> "d-link",
        networking_indicators |-> <<"udhcp", "busybox", "dhcpcd">>,
        iot_indicators |-> <<"dcs", "camera">>,
        default |-> "Network Device"],
       [key |-> "belkin",
        networking_indicators |-> <<"udhcp", "busybox">>,
        iot_indicators |-> <<"wemo", "smart">>,
        default |-> "Network Device"],
       [key |-> "cisco",
        networking_indicators |-> <<"ios", "nx-os", "asa">>,
        iot_indicators |-> <<>>,
        default |-> "Network Device"] >>

component_manufacturers ==
    << [key |-> "intel",
        network_indicators |-> <<"dhcpcd", "pxe", "amt">>,
        mobile_indicators |-> <<"android-dhcp">>,
        default |-> "Computer"],
       [key |-> "giga-byte", network_indicators |-> <<>>,
        mobile_indicators |-> <<>>, default |-> "Computer"],
       [key |-> "micro-star", network_indicators |-> <<>>,
        mobile_indicators |-> <<>>, default |-> "Computer"],
       [key |-> "asrock", network_indicators |-> <<>>,
        mobile_indicators |-> <<>>, default |-> "Computer"],
       [key |-> "nvidia", network_indicators |-> <<>>,
        mobile_indicators |-> <<>>, default |-> "Computer"],
       [key |-> "amd", network_indicators |-> <<>>,
        mobile_indicators |-> <<>>, default |-> "Computer"],
       [key |-> "realtek", network_indicators |-> <<>>,
        mobile_indicators |-> <<>>, default |-> "Computer"],
       [key |-> "broadcom", network_indicators |-> <<>>,
        mobile_indicators |-> <<>>, default |-> "Computer"],
       [key |-> "qualcomm", network_indicators |-> <<>>,
        mobile_indicators |-> <<>>, default |-> "Phone"],
       [key |-> "mediatek", network_indicators |-> <<>>,
        mobile_indicators |-> <<>>, default |-> "Phone"] >>

\* each manufacturer's indicator lists in the order the code tests them:
\* mobile, computer, tv, iot, gaming
device_manufacturers ==
    << [key |-> "apple",
        indicators |-> << <<"iphone", "ios-dhcp">>, <<"dhcpcd", "macos">>,
                          <<>>, <<>>, <<>> >>,
        default |-> "Computer"],
       [key |-> "samsung",
        indicators |-> << <<"android-dhcp", "galaxy">>, <<>>,
                          <<"tizen", "smart-tv">>, <<>>, <<>> >>,
        default |-> "Phone"],
       [key |-> "google",
        indicators |-> << <<"android-dhcp", "pixel">>, <<>>, <<>>,
                          <<"nest", "chromecast">>, <<>> >>,
        default |-> "Phone"],
       [key |-> "amazon",
        indicators |-> << <<>>, <<>>, <<>>, <<"alexa", "echo", "fire">>,
                          <<>> >>,
        default |-> "IoT Device"],
       [key |-> "microsoft",
        indicators |-> << <<>>, <<>>, <<>>, <<>>, <<>> >>,
        default |-> "Computer"],
       [key |-> "dell",
        indicators |-> << <<>>, <<>>, <<>>, <<>>, <<>> >>,
        default |-> "Computer"],
       [key |-> "hp",
        indicators |-> << <<>>, <<>>, <<>>, <<>>, <<>> >>,
        default |-> "Computer"],
       [key |-> "lenovo",
        indicators |-> << <<>>, <<>>, <<>>, <<>>, <<>> >>,
        default |-> "Computer"],
       [key |-> "sony",
        indicators |-> << <<>>, <<>>, <<>>, <<>>,
                          <<"playstation", "ps4", "ps5">> >>,
        default |-> "Gaming Console"],
       [key |-> "nintendo",
        indicators |-> << <<>>, <<>>, <<>>, <<>>, <<>> >>,
        default |-> "Gaming Console"],
       [key |-> "xiaomi",
        indicators |-> << <<>>, <<>>, <<>>, <<>>, <<>> >>,
        default |-> "Phone"],
       [key |-> "huawei",
        indicators |-> << <<>>, <<>>, <<>>, <<>>, <<>> >>,
        default |-> "Phone"],
       [key |-> "oneplus",
        indicators |-> << <<>>, <<>>, <<>>, <<>>, <<>> >>,
        default |-> "Phone"] >>

indicator_results ==
    <<"Phone", "Computer", "Smart TV", "IoT Device", "Gaming Console">>

virtual_vendors == <<"vmware", "virtualbox", "parallels", "xen", "kvm">>

dev_board_vendors ==
    <<"raspberry pi", "arduino", "espressif", "adafruit", "sparkfun">>

printer_vendors ==
    <<"hp inc", "canon", "epson", "brother", "lexmark", "xerox">>

\* index of the first table row whose key is a substring of s, 0 if none
FirstKey(table, s) ==
    LET hits == {k \in 1..Len(table) : Contains(s, table[k].key)}
    IN  IF hits = {} THEN 0 ELSE CHOOSE k \in hits : \A j \in hits : k <= j

_classify_by_hardware_manufacturer_context(vendor, vendor_class) ==
    IF ~Truthy(vendor) THEN None
    ELSE
    LET vendor_lower == lower(vendor)
        vc_lower == IF Truthy(vendor_class) THEN lower(vendor_class) ELSE ""
        mp == FirstKey(multi_product_vendors, vendor_lower)
        cm == FirstKey(component_manufacturers, vendor_lower)
        dm == FirstKey(device_manufacturers, vendor_lower)
    IN  IF AnyIn(pure_networking_vendors, vendor_lower) THEN "Network Device"
        ELSE IF mp # 0 THEN
            IF AnyIn(multi_product_vendors[mp].networking_indicators, vc_lower)
            THEN "Network Device"
            ELSE IF AnyIn(multi_product_vendors[mp].iot_indicators, vc_lower)
            THEN "IoT Device"
            ELSE multi_product_vendors[mp].default
        ELSE IF cm # 0 THEN
            IF AnyIn(component_manufacturers[cm].network_indicators, vc_lower)
            THEN "Network Device"
            ELSE IF AnyIn(component_manufacturers[cm].mobile_indicators,
                          vc_lower)
            THEN "Phone"
            ELSE component_manufacturers[cm].default
        ELSE IF dm # 0 THEN
            LET hits == {t \in 1..5 :
                            AnyIn(device_manufacturers[dm].indicators[t],
                                  vc_lower)}
            IN  IF hits = {} THEN device_manufacturers[dm].default
                ELSE indicator_results[CHOOSE t \in hits :
                                         \A u \in hits : t <= u]
        ELSE IF AnyIn(virtual_vendors, vendor_lower) THEN "Virtual Machine"
        ELSE IF AnyIn(dev_board_vendors, vendor_lower)
        THEN "Single Board Computer"
        ELSE IF AnyIn(printer_vendors, vendor_lower) THEN "Printer"
        ELSE IF Contains(vendor_lower, "private")
                \/ Contains(vendor_lower, "locally administered")
        THEN IF Contains(vc_lower, "android") THEN "Phone"
             ELSE IF Contains(vc_lower, "msft")
                     \/ Contains(vc_lower, "microsoft") THEN "Computer"
             ELSE IF Contains(vc_lower, "apple") THEN "Computer"
             ELSE None
        ELSE None

(***************************************************************************)
(* _analyze_vendor_class_context: DHCP client signature, disambiguated by  *)
(* the manufacturer.                                                       *)
(***************************************************************************)
_analyze_vendor_class_context(vendor_class, manufacturer) ==
    IF ~Truthy(vendor_class) THEN None
    ELSE
    LET vc_lower == lower(vendor_class)
        mfg_lower == IF Truthy(manufacturer) THEN lower(manufacturer) ELSE ""
    IN  IF AnyIn(<<"udhcp", "busybox", "busybox-dhcp", "dropbear">>, vc_lower)
        THEN IF AnyIn(<<"tp-link", "zyxel", "netgear", "d-link", "linksys",
                        "belkin", "tenda">>, mfg_lower)
             THEN "Network Device"
             ELSE "IoT Device"
        ELSE IF AnyIn(<<"dhcpcd", "dhclient", "networkmanager", "systemd">>,
                      vc_lower)
        THEN IF Contains(mfg_lower, "raspberry pi")
                \/ Contains(mfg_lower, "espressif")
             THEN "Single Board Computer"
             ELSE IF AnyIn(<<"ubiquiti", "mikrotik">>, mfg_lower)
             THEN "Network Device"
             ELSE "Computer"
        ELSE IF AnyIn(<<"android-dhcp", "android_dhcp">>, vc_lower)
        THEN IF AnyIn(<<"intel", "realtek", "broadcom", "nvidia", "amd">>,
                      mfg_lower)
             THEN "Computer"
             ELSE IF Contains(vc_lower, "android-dhcp-")
             THEN IF AnyIn(<<"samsung", "google", "huawei", "xiaomi",
                             "oneplus", "lg electronics">>, mfg_lower)
                  THEN "Phone"
                  ELSE "IoT Device"
             ELSE IF Contains(vc_lower, "android-tv") THEN "Smart TV"
             ELSE "Phone"
        ELSE IF AnyIn(<<"apple", "aaplbm", "aaplphone", "ios-dhcp">>, vc_lower)
        THEN IF Contains(vc_lower, "phone") \/ Contains(vc_lower, "ios")
             THEN "Phone"
             ELSE IF Contains(vc_lower, "tv") THEN "Streaming Device"
             ELSE "Computer"
        ELSE IF AnyIn(<<"msft", "microsoft">>, vc_lower) THEN "Computer"
        ELSE IF AnyIn(<<"playstation", "xbox", "nintendo">>, vc_lower)
        THEN "Gaming Console"
        ELSE IF AnyIn(<<"esp32", "esp8266", "arduino", "micropython",
                        "tasmota", "nodemcu">>, vc_lower)
        THEN "IoT Device"
        ELSE IF AnyIn(<<"roku", "chromecast", "firetv", "appletv">>, vc_lower)
        THEN "Streaming Device"
        ELSE IF AnyIn(<<"hp-print", "canon-print", "epson-print",
                        "brother-print">>, vc_lower)
        THEN "Printer"
        ELSE IF AnyIn(<<"openwrt", "dd-wrt", "tomato", "pfsense",
                        "mikrotik">>, vc_lower)
        THEN "Network Device"
        ELSE IF AnyIn(<<"vmware", "virtualbox", "xen", "kvm", "hyper-v">>,
                      vc_lower)
        THEN "Virtual Machine"
        ELSE IF AnyIn(<<"dhcp", "client", "unknown">>, vc_lower)
                /\ Truthy(manufacturer)
        THEN _classify_by_hardware_manufacturer_context(manufacturer,
                                                        vendor_class)
        ELSE None

(***************************************************************************)
(* _resolve_hostname_vendor_conflicts: the first device type of the table  *)
(* that has a token in the hostname AND differs from the current type (a   *)
(* row that names the current type is skipped and the loop goes on).       *)
(***************************************************************************)
device_patterns ==
    << <<"Smart Camera", <<"ring", "nest-cam", "arlo", "wyze", "blink",
                           "eufy-cam", "camera", "doorbell">> >>,
       <<"Smart TV", <<"roku", "firetv", "fire-tv", "appletv", "chromecast",
                       "smarttv", "smart-tv", "smart_tv", "tv-", "-tv",
                       "samsung-tv", "lg-tv", "sony-tv">> >>,
       <<"Gaming Console", <<"ps4", "ps5", "xbox", "nintendo", "switch",
                             "playstation", "console">> >>,
       <<"Smart Speaker", <<"echo", "alexa", "googlehome", "homepod",
                            "nest-mini", "nest-hub">> >>,
       <<"Phone", <<"iphone", "galaxy", "pixel", "oneplus", "huawei",
                    "android-phone">> >>,
       <<"Streaming Device", <<"roku", "firetv", "chromecast",
                               "nvidia-shield", "apple-tv", "streaming">> >>,
       <<"Printer", <<"printer", "print", "hp-", "canon-", "epson-",
                      "brother-">> >>,
       <<"Smart Thermostat", <<"thermostat", "nest-therm", "ecobee">> >>,
       <<"IoT Device", <<"esp", "arduino", "sensor", "smart-", "iot-">> >>,
       <<"Network Device", <<"router", "gateway", "switch", "access-point",
                             "netgear", "linksys">> >> >>

_resolve_hostname_vendor_conflicts(hostname, vendor, current_device_type) ==
    IF ~Truthy(hostname) \/ ~Truthy(vendor) THEN None
    ELSE LET hostname_lower == lower(hostname)
             hits == {k \in 1..Len(device_patterns) :
                         /\ AnyIn(device_patterns[k][2], hostname_lower)
                         /\ device_patterns[k][1] # current_device_type}
         IN  IF hits = {} THEN None
             ELSE device_patterns[CHOOSE k \in hits :
                                    \A j \in hits : k <= j][1]

(***************************************************************************)
(* enhanced_classification: the ten methods of the chain, each a function  *)
(* from the result dict so far to the result dict after the method.  The   *)
(* argument e holds the call's arguments hostname, vendor_class,           *)
(* dhcp_fingerprint and vendor.                                            *)
(***************************************************************************)
InitialResult ==
    [operating_system |-> None, device_type |-> None, confidence |-> "low",
     method |-> "fallback", hostname_override |-> FALSE]

\* the escalation written without its test: the confidence is set to
\* 'medium' whatever it was
SetToMedium(c) == "medium"

RaiseToMedium(c) == IF c = "low" THEN "medium" ELSE c

\* hostname_confidence == 'very_high'
IsHighSpecificity(hostname) ==
    LET hostname_lower == lower(hostname)
    IN  \E k \in 1..Len(high_specificity_patterns) :
            MatchAt(hostname_lower, 1, high_specificity_patterns[k])

\* Method 1: hostname analysis, applied only on a high-specificity match
Method1(result, e) ==
    IF ~Truthy(e.hostname) THEN result
    ELSE LET h == classify_by_hostname(e.hostname)
             very_high == IsHighSpecificity(e.hostname)
             r1 == IF Truthy(h.device_type) /\ very_high
                   THEN [result EXCEPT !.device_type = h.device_type,
                                       !.confidence = "high",
                                       !.method = "hostname_specific",
                                       !.hostname_override = TRUE]
                   ELSE result
         IN  IF Truthy(h.operating_system) /\ very_high
             THEN [r1 EXCEPT !.operating_system = h.operating_system,
                             !.confidence = IF r1.confidence # "high"
                                            THEN "medium" ELSE "high",
                             !.method = "hostname_specific"]
             ELSE r1

\* Method 2: DHCP fingerprint exact-match table
Method2(result, e) ==
    IF Truthy(e.dhcp_fingerprint) /\ ~result.hostname_override
    THEN LET os_from_fp == classify_by_dhcp_fingerprint(e.dhcp_fingerprint)
         IN  IF Truthy(os_from_fp) /\ ~Truthy(result.operating_system)
             THEN [result EXCEPT !.operating_system = os_from_fp,
                                 !.confidence = "high",
                                 !.method = "dhcp_fingerprint"]
             ELSE result
    ELSE result

\* Method 3: vendor class table
Method3(result, e) ==
    IF Truthy(e.vendor_class) /\ ~result.hostname_override
    THEN LET os_from_vc == classify_by_vendor_class(e.vendor_class)
         IN  IF Truthy(os_from_vc) /\ ~Truthy(result.operating_system)
             THEN [result EXCEPT !.operating_system = os_from_vc,
                                 !.confidence = "high",
                                 !.method = "vendor_class"]
             ELSE result
    ELSE result

\* the shape shared by methods 4 and 5: fill the operating system if unset,
\* then the device type if unset and no hostname override
FillFrom(result, c, method) ==
    LET r1 == IF ~Truthy(result.operating_system)
                 /\ Truthy(c.operating_system)
              THEN [result EXCEPT !.operating_system = c.operating_system,
                                  !.confidence = RaiseToMedium(@),
                                  !.method = method]
              ELSE result
    IN  IF ~Truthy(r1.device_type) /\ Truthy(c.device_type)
           /\ ~r1.hostname_override
        THEN [r1 EXCEPT !.device_type = c.device_type]
        ELSE r1

\* Method 4: IoT hostname signatures
Method4(result, e) ==
    IF ~Truthy(result.operating_system) \/ ~Truthy(result.device_type)
    THEN FillFrom(result, _classify_by_iot_signature(e.hostname, e.vendor),
                  "iot_signature")
    ELSE result

\* Method 5: vendor-name rules
Method5(result, e) ==
    IF ~Truthy(result.operating_system) \/ ~Truthy(result.device_type)
    THEN FillFrom(result, _classify_by_vendor_rules(e.vendor), "vendor_rules")
    ELSE result

\* Method 6: generic hostname patterns for the fields still unset
Method6(result, e) ==
    IF Truthy(e.hostname)
       /\ (~Truthy(result.operating_system) \/ ~Truthy(result.device_type))
    THEN FillFrom(result, classify_by_hostname(e.hostname), "hostname")
    ELSE result

\* Method 7: vendor-substring inference
Method7(result, e) ==
    IF ~Truthy(result.operating_system) /\ Truthy(e.vendor)
    THEN IF Contains(lower(e.vendor), "apple")
         THEN [result EXCEPT !.operating_system = "iOS/macOS",
                             !.confidence = IF @ = "low" THEN "low" ELSE @,
                             !.method = "vendor_inference"]
         ELSE IF Contains(lower(e.vendor), "microsoft")
         THEN [result EXCEPT !.operating_system = "Windows",
                             !.confidence = IF @ = "low" THEN "low" ELSE @,
                             !.method = "vendor_inference"]
         ELSE IF Contains(lower(e.vendor), "samsung")
                 /\ ~Truthy(result.device_type)
         THEN [result EXCEPT !.operating_system = "Android",
                             !.device_type = IF ~result.hostname_override
                                             THEN "Phone" ELSE @,
                             !.confidence = RaiseToMedium(@),
                             !.method = "vendor_inference"]
         ELSE result
    ELSE result

\* Method 8: vendor class context analysis
Method8(result, e) ==
    IF ~Truthy(result.device_type) /\ Truthy(e.vendor_class)
    THEN LET vc_device_type ==
                 _analyze_vendor_class_context(e.vendor_class, e.vendor)
         IN  IF Truthy(vc_device_type)
             THEN [result EXCEPT !.device_type = vc_device_type,
                                 !.confidence = RaiseToMedium(@),
                                 !.method = "vendor_class_context"]
             ELSE result
    ELSE result

\* Method 9: hardware manufacturer context analysis
Method9(result, e) ==
    IF ~Truthy(result.device_type) /\ Truthy(e.vendor)
    THEN LET hardware_type ==
                 _classify_by_hardware_manufacturer_context(e.vendor,
                                                            e.vendor_class)
         IN  IF Truthy(hardware_type)
             THEN [result EXCEPT !.device_type = hardware_type,
                                 !.confidence = RaiseToMedium(@),
                                 !.method = "hardware_manufacturer_context"]
             ELSE result
    ELSE result

\* Method 10: hostname-vendor conflict resolution
Method10(result, e) ==
    IF Truthy(e.hostname) /\ Truthy(e.vendor) /\ Truthy(result.device_type)
    THEN LET conflict_resolution ==
                 _resolve_hostname_vendor_conflicts(e.hostname, e.vendor,
                                                    result.device_type)
         IN  IF Truthy(conflict_resolution)
                /\ conflict_resolution # result.device_type
             THEN [result EXCEPT !.device_type = conflict_resolution,
                                 !.confidence = "high",
                                 !.method = "hostname_conflict_resolution",
                                 !.hostname_override = TRUE]
             ELSE result
    ELSE result

NumMethods == 10

ApplyMethod(n, result, e) ==
    CASE n = 1 -> Method1(result, e)
      [] n = 2 -> Method2(result, e)
      [] n = 3 -> Method3(result, e)
      [] n = 4 -> Method4(result, e)
      [] n = 5 -> Method5(result, e)
      [] n = 6 -> Method6(result, e)
      [] n = 7 -> Method7(result, e)
      [] n = 8 -> Method8(result, e)
      [] n = 9 -> Method9(result, e)
      [] n = 10 -> Method10(result, e)

\* the result dict after methods 1..n
RECURSIVE AfterMethod(_, _)
AfterMethod(n, e) ==
    IF n = 0 THEN InitialResult ELSE ApplyMethod(n, AfterMethod(n - 1, e), e)

enhanced_classification(hostname, vendor_class, dhcp_fingerprint, vendor) ==
    AfterMethod(NumMethods,
                [hostname |-> hostname, vendor_class |-> vendor_class,
                 dhcp_fingerprint |-> dhcp_fingerprint, vendor |-> vendor])

(***************************************************************************)
(* MACVendorLookup.lookup_vendor.  The OUI table is loaded from the IEEE   *)
(* registry file or from the built-in list; the model keeps the rows of    *)
(* the OUIs that occur in the modelled logs.                               *)
(***************************************************************************)
RECURSIVE StripChars(_, _)
StripChars(s, chars) ==
    IF Len(s) = 0 THEN ""
    ELSE (IF Contains(chars, SubSeq(s, 1, 1)) THEN "" ELSE SubSeq(s, 1, 1))
         \o StripChars(SubSeq(s, 2, Len(s)), chars)

UpperChar(c) ==
    LET hits == {k \in 1..26 : SubSeq(LowerChars, k, k) = c}
    IN  IF hits = {} THEN c
        ELSE LET k == CHOOSE k \in hits : TRUE IN SubSeq(UpperChars, k, k)

RECURSIVE upper(_)
upper(s) ==
    IF Len(s) = 0 THEN ""
    ELSE UpperChar(SubSeq(s, 1, 1)) \o upper(SubSeq(s, 2, Len(s)))

oui_database ==
    << <<"000393", "Apple, Inc.">>,
       <<"5CF938", "Samsung Electronics Co.,Ltd">>,
       <<"8C8590", "Amazon Technologies Inc.">>,
       <<"B827EB", "Raspberry Pi Foundation">>,
       <<"001B21", "Intel Corporate">> >>

_get_unknown_result == [vendor |-> "Unknown", confidence |-> "none"]

lookup_vendor(mac_address) ==
    LET clean_mac == upper(StripChars(mac_address, ":-."))
        oui == SubSeq(clean_mac, 1, 6)
        hits == {k \in 1..Len(oui_database) : oui_database[k][1] = oui}
    IN  IF Len(clean_mac) < 6 THEN _get_unknown_result
        ELSE IF hits # {}
        THEN [vendor |-> oui_database[CHOOSE k \in hits : TRUE][2],
              confidence |-> "high"]
        ELSE _get_unknown_result

(***************************************************************************)
(* _group_entries_by_device and _get_best_entry.                           *)
(***************************************************************************)
\* the distinct MAC addresses of a log, in order of first occurrence (the
\* key order of the device_entries dict)
RECURSIVE MacOrder(_)
MacOrder(dhcp_entries) ==
    IF dhcp_entries = <<>> THEN <<>>
    ELSE LET front == MacOrder(SubSeq(dhcp_entries, 1, Len(dhcp_entries) - 1))
             mac == dhcp_entries[Len(dhcp_entries)].mac_address
         IN  IF \E k \in 1..Len(front) : front[k] = mac THEN front
             ELSE Append(front, mac)

\* device_entries[mac]
EntriesOf(dhcp_entries, mac) ==
    SelectSeq(dhcp_entries, LAMBDA en : en.mac_address = mac)

_group_entries_by_device(dhcp_entries) ==
    LET order == MacOrder(dhcp_entries)
    IN  [k \in 1..Len(order) |->
            [mac_address |-> order[k],
             entries |-> EntriesOf(dhcp_entries, order[k])]]

EntryScore(entry) ==
    (IF Truthy(entry.hostname) THEN 3 ELSE 0)
    + (IF Truthy(entry.vendor_class) THEN 2 ELSE 0)
    + (IF Truthy(entry.dhcp_fingerprint) THEN 2 ELSE 0)
    + (IF entry.message_type = "ACK" THEN 1 ELSE 0)

\* scored_entries: the pairs (score, entry) in the order of the entries
ScoredEntries(entries) ==
    [k \in 1..Len(entries) |-> <<EntryScore(entries[k]), entries[k]>>]

\* a pair put before the pairs of the same score
InsertBeforeEqualScores(sorted, pair) ==
    LET n == Cardinality({k \in 1..Len(sorted) : sorted[k][1] > pair[1]})
    IN  SubSeq(sorted, 1, n) \o <<pair>> \o SubSeq(sorted, n + 1, Len(sorted))

\* a pair put into a list sorted by descending score, after the pairs of
\* the same score (the sort is stable, also with reverse=True)
InsertByScore(sorted, pair) ==
    LET n == Cardinality({k \in 1..Len(sorted) : sorted[k][1] >= pair[1]})
    IN  SubSeq(sorted, 1, n) \o <<pair>> \o SubSeq(sorted, n + 1, Len(sorted))

\* scored_entries.sort(key=lambda x: x[0], reverse=True)
RECURSIVE SortByScore(_)
SortByScore(scored_entries) ==
    IF scored_entries = <<>> THEN <<>>
    ELSE InsertByScore(
             SortByScore(SubSeq(scored_entries, 1, Len(scored_entries) - 1)),
             scored_entries[Len(scored_entries)])

_get_best_entry(entries) == SortByScore(ScoredEntries(entries))[1][2]

(***************************************************************************)
(* DHCPFingerprintClassifier.classify_by_fingerprint: a pair               *)
(* <<device_type, confidence>> from the number of requested options.       *)
(***************************************************************************)
RECURSIVE CountChar(_, _)
CountChar(s, c) ==
    IF Len(s) = 0 THEN 0
    ELSE (IF SubSeq(s, 1, 1) = c THEN 1 ELSE 0)
         + CountChar(SubSeq(s, 2, Len(s)), c)

\* len(fingerprint.split(','))
option_count(fingerprint) == CountChar(fingerprint, ",") + 1

_classify_minimal_device(vendor, vendor_class) ==
    IF Truthy(vendor) /\ AnyIn(<<"espressif", "murata">>, lower(vendor))
    THEN <<"IoT Device", "medium">>
    ELSE IF Truthy(vendor) /\ Contains(lower(vendor), "philips")
    THEN <<"Smart Lighting", "medium">>
    ELSE <<"IoT Device", "low">>

_classify_smart_device(vendor, vendor_class) ==
    LET vc_lower == IF Truthy(vendor_class) THEN lower(vendor_class) ELSE ""
        vendor_lower == IF Truthy(vendor) THEN lower(vendor) ELSE ""
    IN  IF Truthy(vendor_class)
           /\ AnyIn(<<"ps5", "nintendo", "xbox">>, vc_lower)
        THEN <<"Gaming Console", "high">>
        ELSE IF Truthy(vendor_class)
                /\ AnyIn(<<"roku", "fire tv", "chromecast">>, vc_lower)
        THEN <<"Streaming Device", "high">>
        ELSE IF Truthy(vendor_class)
                /\ AnyIn(<<"ring", "nest", "hue">>, vc_lower)
        THEN <<"Smart Home Device", "high">>
        ELSE IF Truthy(vendor) /\ Contains(vendor_lower, "amazon")
        THEN <<"Smart Speaker", "medium">>
        ELSE IF Truthy(vendor) /\ Contains(vendor_lower, "philips")
        THEN <<"Smart Lighting", "medium">>
        ELSE IF Truthy(vendor) /\ Contains(vendor_lower, "nintendo")
        THEN <<"Gaming Console", "high">>
        ELSE <<"Smart Home Device", "low">>

_classify_mobile_device(vendor) ==
    IF Truthy(vendor)
       /\ AnyIn(<<"apple", "samsung", "google", "huawei">>, lower(vendor))
    THEN <<"Phone", "high">>
    ELSE <<"Phone", "medium">>

_classify_complex_device(vendor_class) ==
    IF Truthy(vendor_class)
       /\ AnyIn(<<"windows", "microsoft", "dhcpcd", "linux">>,
                lower(vendor_class))
    THEN <<"Computer", "high">>
    ELSE <<"Computer", "medium">>

classify_by_fingerprint(fingerprint, vendor, vendor_class, hostname) ==
    IF ~Truthy(fingerprint) THEN <<None, "none">>
    ELSE IF option_count(fingerprint) <= 3
    THEN _classify_minimal_device(vendor, vendor_class)
    ELSE IF option_count(fingerprint) <= 6
    THEN _classify_smart_device(vendor, vendor_class)
    ELSE IF option_count(fingerprint) >= 10
    THEN _classify_complex_device(vendor_class)
    ELSE _classify_mobile_device(vendor)

(***************************************************************************)
(* Resolution / routing engine (OptimizedDHCPDeviceAnalyzer).  The         *)
(* oracle's answer fingerbank_result is a DeviceClassification record;     *)
(* an absent device_hierarchy is the empty list (both are falsy) and an    *)
(* absent confidence score is NoScore.                                     *)
(***************************************************************************)
NoScore == -1

critical_patterns ==
    <<"smart-tv", "smart_tv", "-tv-", "tv-", "samsung-tv", "lg-tv", "sony-tv",
      "ring-camera", "ring-doorbell", "security-cam", "ip-camera",
      "ps4-console", "ps5-console", "xbox-", "nintendo-",
      "hp-printer", "canon-printer", "epson-printer", "laser-printer",
      "nest-thermostat", "smart-thermostat", "ecobee",
      "firetv-stick", "roku-stick", "appletv", "chromecast",
      "echo-dot", "echo-show", "google-home", "homepod">>

_has_critical_hostname_pattern(hostname) ==
    AnyIn(critical_patterns, lower(hostname))

strong_patterns ==
    <<"ring-camera", "ring-doorbell", "nest-thermostat", "nest-cam",
      "chromecast", "firetv", "fire-tv", "roku", "appletv",
      "ps4", "ps5", "xbox", "nintendo", "switch",
      "esp32", "esp8266", "raspberry", "arduino",
      "printer", "hp-print", "canon-print", "epson-print",
      "echo-", "alexa-", "google-home", "homepod">>

_has_strong_hostname_pattern(hostname) ==
    AnyIn(strong_patterns, lower(hostname))

routing_component_manufacturers ==
    <<"intel", "giga-byte", "micro-star", "asrock", "nvidia", "amd">>

\* ' '.join(names); defined when every name is a string
RECURSIVE Join(_)
Join(names) ==
    IF Len(names) = 0 THEN ""
    ELSE IF Len(names) = 1 THEN names[1]
    ELSE names[1] \o " " \o Join(Tail(names))

\* ' '.join raises TypeError on a parent whose name is null in the response
JoinRaises(names) == \E k \in 1..Len(names) : names[k] = None

\* the call raises instead of returning: condition 2 joins the hierarchy
RouteRaises(fingerbank_result) ==
    /\ fingerbank_result.confidence_score > 40
    /\ fingerbank_result.device_hierarchy # <<>>
    /\ JoinRaises(fingerbank_result.device_hierarchy)

\* Condition 1: very low confidence
RoutingCondition1(fingerbank_result) ==
    fingerbank_result.confidence_score <= 40

\* Condition 2 comparing without lowering the case of the hierarchy
RoutingCondition2CaseSensitive(fingerbank_result) ==
    /\ fingerbank_result.device_hierarchy # <<>>
    /\ Contains(Join(fingerbank_result.device_hierarchy),
                "hardware manufacturer")

\* Condition 2: hardware manufacturer in the joined hierarchy
RoutingCondition2(fingerbank_result) ==
    /\ fingerbank_result.device_hierarchy # <<>>
    /\ Contains(lower(Join(fingerbank_result.device_hierarchy)),
                "hardware manufacturer")

\* Condition 2b: hardware manufacturer in the device name
RoutingCondition2b(fingerbank_result) ==
    /\ Truthy(fingerbank_result.device_name)
    /\ Contains(lower(fingerbank_result.device_name), "hardware manufacturer")

\* Condition 3: critical hostname pattern
RoutingCondition3(dhcp_entry) ==
    /\ Truthy(dhcp_entry.hostname)
    /\ _has_critical_hostname_pattern(dhcp_entry.hostname)

\* Condition 4 with the boundary 50 excluded
RoutingCondition4Exclusive(fingerbank_result, dhcp_entry) ==
    /\ Truthy(dhcp_entry.hostname)
    /\ fingerbank_result.confidence_score < 50
    /\ _has_strong_hostname_pattern(dhcp_entry.hostname)

\* Condition 4: strong hostname pattern with moderate confidence
RoutingCondition4(fingerbank_result, dhcp_entry) ==
    /\ Truthy(dhcp_entry.hostname)
    /\ fingerbank_result.confidence_score <= 50
    /\ _has_strong_hostname_pattern(dhcp_entry.hostname)

\* Condition 5: component manufacturer with moderate confidence
RoutingCondition5(fingerbank_result, vendor) ==
    /\ AnyIn(routing_component_manufacturers, lower(vendor))
    /\ fingerbank_result.confidence_score <= 60

\* Condition 6: network/embedded vendor class
RoutingCondition6(fingerbank_result, dhcp_entry) ==
    /\ Truthy(dhcp_entry.vendor_class)
    /\ AnyIn(<<"udhcp", "busybox", "dhcpcd">>, lower(dhcp_entry.vendor_class))
    /\ fingerbank_result.confidence_score <= 55

\* the conditions are tried in this order and the first that holds returns
_should_route_to_enhanced_classifier(fingerbank_result, dhcp_entry, vendor) ==
    IF RoutingCondition1(fingerbank_result) THEN TRUE
    ELSE IF RoutingCondition2(fingerbank_result) THEN TRUE
    ELSE IF RoutingCondition2b(fingerbank_result) THEN TRUE
    ELSE IF RoutingCondition3(dhcp_entry) THEN TRUE
    ELSE IF RoutingCondition4(fingerbank_result, dhcp_entry) THEN TRUE
    ELSE IF RoutingCondition5(fingerbank_result, vendor) THEN TRUE
    ELSE IF RoutingCondition6(fingerbank_result, dhcp_entry) THEN TRUE
    ELSE FALSE

\* the empty dict {} returned when the enhanced result is not usable
EmptyDict ==
    [operating_system |-> None, device_type |-> None, confidence |-> None,
     method |-> None, hostname_override |-> FALSE]

\* the acceptance test without its confidence and method conditions
AcceptAnyDeviceType(enhanced_result) == Truthy(enhanced_result.device_type)

AcceptEnhanced(enhanced_result) ==
    \/ /\ enhanced_result.confidence \in {"high", "very_high", "medium"}
       /\ Truthy(enhanced_result.device_type)
    \/ /\ enhanced_result.method \in {"hostname_specific", "iot_signature"}
       /\ Truthy(enhanced_result.device_type)

_try_enhanced_classification_preferred(dhcp_entry, vendor) ==
    LET enhanced_result ==
            enhanced_classification(dhcp_entry.hostname,
                                    dhcp_entry.vendor_class,
                                    dhcp_entry.dhcp_fingerprint, vendor)
    IN  IF AcceptEnhanced(enhanced_result) THEN enhanced_result
        ELSE EmptyDict

(***************************************************************************)
(* Selective override of the oracle's device type by the hostname.         *)
(***************************************************************************)
high_confidence_patterns ==
    << <<"Smart Camera", <<"ring-camera", "ring-doorbell", "nest-cam",
                           "arlo-camera", "wyze-cam", "blink-camera",
                           "eufy-cam", "security-camera">> >>,
       <<"Smart Speaker", <<"echo-dot", "echo-show", "echo-studio",
                            "google-home", "nest-mini", "homepod",
                            "alexa-device">> >>,
       <<"Smart Thermostat", <<"nest-thermostat", "ecobee",
                               "honeywell-thermostat",
                               "smart-thermostat">> >>,
       <<"Streaming Device", <<"firetv-stick", "fire-tv", "roku-stick",
                               "chromecast", "appletv", "nvidia-shield",
                               "streaming-stick">> >>,
       <<"Gaming Console", <<"ps4-console", "ps5-console", "xbox-one",
                             "xbox-series", "nintendo-switch", "playstation",
                             "gaming-console">> >>,
       <<"Printer", <<"hp-printer", "canon-printer", "epson-printer",
                      "brother-printer", "laser-printer", "inkjet-printer",
                      "network-printer">> >>,
       <<"Smart TV", <<"smart-tv", "samsung-tv", "lg-tv", "sony-tv",
                       "android-tv", "webos-tv">> >>,
       <<"Phone", <<"iphone-", "galaxy-s", "pixel-", "oneplus-",
                    "huawei-p", "xiaomi-mi">> >> >>

device_categories ==
    << <<"mobile", {"Phone", "Tablet"}>>,
       <<"computer", {"Computer", "Laptop", "Desktop"}>>,
       <<"smart_home", {"Smart Camera", "Smart Speaker", "Smart Thermostat",
                        "Smart TV"}>>,
       <<"entertainment", {"Gaming Console", "Streaming Device",
                           "Smart TV"}>>,
       <<"network", {"Network Device", "Router", "Access Point"}>>,
       <<"iot", {"IoT Device", "Smart Camera", "Smart Speaker",
                 "Smart Thermostat"}>> >>

\* the loop over the categories has no break: the LAST category that lists
\* the type is kept
CategoryOf(type) ==
    LET hits == {k \in 1..Len(device_categories) :
                    type \in device_categories[k][2]}
    IN  IF hits = {} THEN None
        ELSE device_categories[CHOOSE k \in hits : \A j \in hits : j <= k][1]

overlapping_pairs ==
    {<<"smart_home", "iot">>, <<"entertainment", "smart_home">>,
     <<"entertainment", "iot">>}

\* the pair looked up in the listed order only
CategoriesOverlapOrdered(cat1, cat2) == <<cat1, cat2>> \in overlapping_pairs

_categories_overlap(cat1, cat2) ==
    <<cat1, cat2>> \in overlapping_pairs \/ <<cat2, cat1>> \in overlapping_pairs

_is_clear_device_conflict(fingerbank_type, hostname_type) ==
    LET fingerbank_category == CategoryOf(fingerbank_type)
        hostname_category == CategoryOf(hostname_type)
    IN  /\ fingerbank_category # None
        /\ hostname_category # None
        /\ fingerbank_category # hostname_category
        /\ ~_categories_overlap(fingerbank_category, hostname_category)

critical_override_patterns ==
    <<"ring-camera", "ring-doorbell", "ps4-console", "ps5-console",
      "xbox-one", "xbox-series", "firetv-stick", "roku-stick",
      "nest-thermostat", "hp-printer", "canon-printer">>

\* every hostname pattern of the override table counted as critical
EveryPatternCritical(hostname_lower, fingerbank_type, hostname_type) == TRUE

_is_critical_override_case(hostname_lower, fingerbank_type, hostname_type) ==
    AnyIn(critical_override_patterns, hostname_lower)

_infer_os_from_device_type(device_type, hostname_lower) ==
    CASE device_type = "Smart Camera" -> "Linux"
      [] device_type = "Smart Speaker" -> "Linux"
      [] device_type = "Smart Thermostat" -> "Linux"
      [] device_type = "Streaming Device" ->
            IF Contains(hostname_lower, "firetv") THEN "Android TV"
            ELSE "Linux"
      [] device_type = "Gaming Console" ->
            IF AnyIn(<<"ps4", "ps5", "playstation">>, hostname_lower)
            THEN "PlayStation OS"
            ELSE IF Contains(hostname_lower, "xbox") THEN "Xbox OS"
            ELSE "Nintendo OS"
      [] device_type = "Printer" -> "Embedded OS"
      [] device_type = "Smart TV" ->
            IF Contains(hostname_lower, "android") THEN "Android TV"
            ELSE IF Contains(hostname_lower, "lg") THEN "webOS"
            ELSE "Tizen"
      [] device_type = "Phone" ->
            IF Contains(hostname_lower, "iphone") THEN "iOS" ELSE "Android"
      [] OTHER -> "Unknown"

\* the reason computed with the first threshold excluded (score < 40)
OverrideReasonBelow40(fingerbank_result, hostname_lower, current_device_type, device_type) ==
    IF fingerbank_result.confidence_score < 40
    THEN "low_confidence_" \o ToString(fingerbank_result.confidence_score)
    ELSE IF fingerbank_result.confidence_score <= 60
            /\ _is_clear_device_conflict(current_device_type, device_type)
    THEN "device_conflict_" \o ToString(fingerbank_result.confidence_score)
    ELSE IF fingerbank_result.confidence_score > 60
            /\ _is_critical_override_case(hostname_lower, current_device_type,
                                          device_type)
    THEN "critical_override_" \o ToString(fingerbank_result.confidence_score)
    ELSE None

\* the reason of an override of device_type over the oracle, None if the
\* row of the table does not override
OverrideReason(fingerbank_result, hostname_lower, current_device_type, device_type) ==
    IF fingerbank_result.confidence_score <= 40
    THEN "low_confidence_" \o ToString(fingerbank_result.confidence_score)
    ELSE IF fingerbank_result.confidence_score <= 60
            /\ _is_clear_device_conflict(current_device_type, device_type)
    THEN "device_conflict_" \o ToString(fingerbank_result.confidence_score)
    ELSE IF fingerbank_result.confidence_score > 60
            /\ _is_critical_override_case(hostname_lower, current_device_type,
                                          device_type)
    THEN "critical_override_" \o ToString(fingerbank_result.confidence_score)
    ELSE None

\* the None returned when nothing is overridden
NoOverride == [device_type |-> None, operating_system |-> None, method |-> None]

\* the override of the first table row that has a token in the hostname,
\* differs from the current type and passes the confidence test
_apply_selective_override(fingerbank_result, hostname, vendor, current_device_type) ==
    IF ~Truthy(hostname) THEN NoOverride
    ELSE LET hostname_lower == lower(hostname)
             hits == {k \in 1..Len(high_confidence_patterns) :
                        /\ AnyIn(high_confidence_patterns[k][2],
                                 hostname_lower)
                        /\ high_confidence_patterns[k][1]
                               # current_device_type
                        /\ OverrideReason(fingerbank_result, hostname_lower,
                                          current_device_type,
                                          high_confidence_patterns[k][1])
                               # None}
         IN  IF hits = {} THEN NoOverride
             ELSE LET device_type ==
                          high_confidence_patterns[
                              CHOOSE k \in hits : \A j \in hits : k <= j][1]
                  IN  [device_type |-> device_type,
                       operating_system |->
                           _infer_os_from_device_type(device_type,
                                                      hostname_lower),
                       method |-> "fingerbank_override_"
                                  \o OverrideReason(fingerbank_result,
                                                    hostname_lower,
                                                    current_device_type,
                                                    device_type)]

(***************************************************************************)
(* _calculate_overall_confidence: the point scale.                         *)
(***************************************************************************)
\* the point scale counting a method outside its list like hostname_specific
ConfidencePointsUnlistedMethod(result) ==
    (IF Truthy(result.vendor) THEN 20 ELSE 0)
    + (IF result.classification_method = "fingerbank"
          /\ result.fingerbank_confidence # NoScore
          /\ result.fingerbank_confidence # 0
       THEN IF result.fingerbank_confidence >= 80 THEN 60
            ELSE IF result.fingerbank_confidence >= 60 THEN 40
            ELSE 20
       ELSE IF result.classification_method = "dhcp_fingerprint"
       THEN IF result.dhcp_fingerprint_confidence = "high" THEN 40
            ELSE IF result.dhcp_fingerprint_confidence = "medium" THEN 25
            ELSE 10
       ELSE IF result.classification_method = "enhanced_fallback" THEN 15
       ELSE 50)
    + (IF Truthy(result.hostname) THEN 10 ELSE 0)
    + (IF Truthy(result.vendor_class) THEN 10 ELSE 0)

ConfidencePoints(result) ==
    (IF Truthy(result.vendor) THEN 20 ELSE 0)
    + (IF result.classification_method = "fingerbank"
          /\ result.fingerbank_confidence # NoScore
          /\ result.fingerbank_confidence # 0
       THEN IF result.fingerbank_confidence >= 80 THEN 60
            ELSE IF result.fingerbank_confidence >= 60 THEN 40
            ELSE 20
       ELSE IF result.classification_method = "hostname_specific" THEN 50
       ELSE IF result.classification_method = "dhcp_fingerprint"
       THEN IF result.dhcp_fingerprint_confidence = "high" THEN 40
            ELSE IF result.dhcp_fingerprint_confidence = "medium" THEN 25
            ELSE 10
       ELSE IF result.classification_method = "enhanced_fallback" THEN 15
       ELSE 0)
    + (IF Truthy(result.hostname) THEN 10 ELSE 0)
    + (IF Truthy(result.vendor_class) THEN 10 ELSE 0)

_calculate_overall_confidence(result) ==
    IF ConfidencePoints(result) >= 80 THEN "high"
    ELSE IF ConfidencePoints(result) >= 50 THEN "medium"
    ELSE IF ConfidencePoints(result) >= 30 THEN "low"
    ELSE "unknown"

(***************************************************************************)
(* The oracle client (FingerbankAPIClient).  A response is the JSON body   *)
(* of the API: score, has_device and name/parents of "device", the root    *)
(* device_name (None when the key is absent), the names of                 *)
(* "operating_system" and "manufacturer" (None when absent), version, and  *)
(* errors (None when absent, else the "details" text).                     *)
(***************************************************************************)
api_device_patterns ==
    << <<"Phone",
         <<"smartphone", "mobile phone", "cellular phone", "iphone", "android phone">>,
         <<"phone", "galaxy", "pixel", "oneplus", "huawei phone">>,
         <<"mobile">>>>,
       <<"Tablet",
         <<"tablet", "ipad", "android tablet">>,
         <<"slate", "surface tablet">>,
         <<"tab">>>>,
       <<"Computer",
         <<"laptop", "desktop", "workstation", "macbook", "imac", "thinkpad">>,
         <<"computer", "pc", "notebook", "ultrabook">>,
         <<"mac", "windows">>>>,
       <<"Server",
         <<"server", "rack server", "blade server", "database server">>,
         <<"datacenter", "enterprise server">>,
         <<"srv">>>>,
       <<"Gaming Console",
         <<"playstation", "xbox", "nintendo switch", "ps4", "ps5", "xbox one", "xbox series">>,
         <<"console", "gaming console", "nintendo">>,
         <<"gaming">>>>,
       <<"Smart TV",
         <<"smart tv", "android tv", "roku tv", "apple tv", "fire tv">>,
         <<"television", "tv", "media player", "streaming device">>,
         <<"roku", "chromecast">>>>,
       <<"Network Device",
         <<"router", "switch", "access point", "firewall", "gateway">>,
         <<"network device", "networking", "modem", "bridge">>,
         <<"wireless", "ethernet">>>>,
       <<"Printer",
         <<"printer", "multifunction printer", "laser printer", "inkjet printer">>,
         <<"print server", "scanner", "copier">>,
         <<"print">>>>,
       <<"Smart Speaker",
         <<"smart speaker", "voice assistant", "echo", "google home", "homepod">>,
         <<"speaker", "alexa device", "google assistant">>,
         <<"audio">>>>,
       <<"Smart Camera",
         <<"security camera", "ip camera", "webcam", "doorbell camera", "ring">>,
         <<"camera", "surveillance", "nest cam">>,
         <<"cam">>>>,
       <<"Smart Lighting",
         <<"smart light", "smart bulb", "hue", "philips lighting">>,
         <<"lighting", "bulb", "dimmer">>,
         <<"light">>>>,
       <<"IoT Device",
         <<"iot device", "smart sensor", "smart plug", "smart switch">>,
         <<"sensor", "thermostat", "smart home", "automation">>,
         <<"iot">>>>,
       <<"Storage Device",
         <<"nas", "network storage", "storage server">>,
         <<"storage", "drive", "disk">>,
         <<"hdd", "ssd">>>> >>

hierarchy_patterns ==
    << <<"Phone", <<"mobile", "cellular", "smartphone">>>>,
       <<"Computer", <<"operating system", "os", "desktop", "laptop">>>>,
       <<"Gaming Console", <<"gaming", "console", "entertainment">>>>,
       <<"Network Device", <<"networking", "infrastructure", "wireless">>>>,
       <<"IoT Device", <<"internet of things", "embedded", "sensor">>>>,
       <<"Smart TV", <<"media", "entertainment", "streaming">>>> >>

\* filter(None, names): drops the nulls and the empty strings
RECURSIVE FilterNone(_)
FilterNone(names) ==
    IF Len(names) = 0 THEN <<>>
    ELSE IF Truthy(names[1]) THEN <<names[1]>> \o FilterNone(Tail(names))
    ELSE FilterNone(Tail(names))

\* index of the first row from k on with a pattern of the level in the text,
\* 0 if none; levels are the columns 2 (high), 3 (medium), 4 (low)
RECURSIVE FirstTypeAt(_, _, _)
FirstTypeAt(level, full_text, k) ==
    IF k > Len(api_device_patterns) THEN 0
    ELSE IF AnyIn(api_device_patterns[k][level], full_text) THEN k
    ELSE FirstTypeAt(level, full_text, k + 1)

\* index of the first row <<type, keywords>> with a keyword in s, 0 if none
FirstRowWith(table, s) ==
    LET hits == {k \in 1..Len(table) : AnyIn(table[k][2], s)}
    IN  IF hits = {} THEN 0 ELSE CHOOSE k \in hits : \A j \in hits : k <= j

_analyze_hierarchy_structure(device_hierarchy, manufacturer) ==
    IF device_hierarchy = <<>> THEN None
    ELSE LET hierarchy_text == lower(Join(device_hierarchy))
             row == FirstRowWith(hierarchy_patterns, hierarchy_text)
         IN  IF row # 0 THEN hierarchy_patterns[row][1]
             ELSE IF Truthy(manufacturer)
             THEN LET manufacturer_lower == lower(manufacturer)
                  IN  IF AnyIn(<<"apple", "samsung", "google", "huawei">>,
                               manufacturer_lower)
                      THEN None
                      ELSE IF AnyIn(<<"sony", "microsoft", "nintendo">>,
                                    manufacturer_lower)
                      THEN "Gaming Console"
                      ELSE IF AnyIn(<<"cisco", "netgear", "linksys">>,
                                    manufacturer_lower)
                      THEN "Network Device"
                      ELSE None
             ELSE None

\* the first type with a high pattern in the text, else the first with a
\* medium one, else the first with a low one, else the hierarchy analysis
_determine_device_type(device_name, device_hierarchy, manufacturer) ==
    LET full_text ==
            lower(Join(FilterNone(<<device_name, manufacturer>>
                                  \o device_hierarchy)))
        high == FirstTypeAt(2, full_text, 1)
        medium == FirstTypeAt(3, full_text, 1)
        low == FirstTypeAt(4, full_text, 1)
    IN  IF high # 0 THEN api_device_patterns[high][1]
        ELSE IF medium # 0 THEN api_device_patterns[medium][1]
        ELSE IF low # 0 THEN api_device_patterns[low][1]
        ELSE IF device_hierarchy # <<>>
        THEN _analyze_hierarchy_structure(device_hierarchy, manufacturer)
        ELSE None

\* the hierarchy analysis joins the parents' names: it raises on a null name
DetermineRaises(device_name, device_hierarchy, manufacturer) ==
    LET full_text ==
            lower(Join(FilterNone(<<device_name, manufacturer>>
                                  \o device_hierarchy)))
    IN  /\ FirstTypeAt(2, full_text, 1) = 0
        /\ FirstTypeAt(3, full_text, 1) = 0
        /\ FirstTypeAt(4, full_text, 1) = 0
        /\ JoinRaises(device_hierarchy)

\* str(TypeError) of ' '.join on the first null item
JoinErrorText(names) ==
    LET k == CHOOSE i \in 1..Len(names) :
                 names[i] = None /\ \A j \in 1..(i - 1) : names[j] # None
    IN  "sequence item " \o ToString(k - 1)
        \o ": expected str instance, NoneType found"

\* the buckets with 30 counted as very_low
ConfidenceLevelThirtyLow(score) ==
    IF score <= 30 THEN "very_low"
    ELSE IF score <= 50 THEN "moderate"
    ELSE IF score <= 75 THEN "high"
    ELSE "very_high"

confidence_level_of(score) ==
    IF score < 30 THEN "very_low"
    ELSE IF score <= 50 THEN "moderate"
    ELSE IF score <= 75 THEN "high"
    ELSE "very_high"

\* DeviceClassification(raw_response={}, error_message=error_msg)
ErrorClassification(error_msg) ==
    [device_name |-> None, device_type |-> None, operating_system |-> None,
     manufacturer |-> None, device_hierarchy |-> <<>>,
     confidence_score |-> NoScore, confidence_level |-> None,
     error_message |-> error_msg]

_parse_api_response(response_data) ==
    LET device_name ==
            IF ~response_data.has_device THEN None
            ELSE IF response_data.device_name # None
            THEN response_data.device_name
            ELSE response_data.name
        device_hierarchy ==
            IF response_data.has_device THEN response_data.parents ELSE <<>>
        operating_system ==
            IF Truthy(response_data.version)
               /\ Truthy(response_data.os_name)
            THEN response_data.os_name \o " " \o response_data.version
            ELSE response_data.os_name
        manufacturer == response_data.manufacturer
        root_name == IF response_data.device_name # None
                     THEN response_data.device_name ELSE ""
        parsed ==
            [device_name |-> device_name, device_type |-> None,
             operating_system |-> operating_system,
             manufacturer |-> manufacturer,
             device_hierarchy |-> device_hierarchy,
             confidence_score |-> response_data.score,
             confidence_level |-> confidence_level_of(response_data.score),
             error_message |-> None]
    IN  IF DetermineRaises(root_name, device_hierarchy, manufacturer)
        THEN [parsed EXCEPT !.error_message =
                  "Failed to parse API response: "
                  \o JoinErrorText(device_hierarchy)]
        ELSE [parsed EXCEPT
                 !.device_type =
                     _determine_device_type(root_name, device_hierarchy,
                                            manufacturer),
                 !.error_message =
                     IF response_data.errors # None
                     THEN response_data.errors
                     ELSE IF ~Truthy(device_name)
                             /\ ~Truthy(operating_system)
                             /\ ~Truthy(manufacturer)
                     THEN "No device information found in response"
                     ELSE None]

(***************************************************************************)
(* APIRateLimit.  Time is counted in hours; the limits of the constructor  *)
(* are scaled down so that a batch can exhaust them.                       *)
(***************************************************************************)
RequestsPerHour == 1
RequestsPerDay == 2
Hour == 1
Day == 24
SecondsPerHour == 3600

RECURSIVE NewerThan(_, _)
NewerThan(requests, limit) ==
    IF Len(requests) = 0 THEN <<>>
    ELSE IF requests[1] > limit
    THEN <<requests[1]>> \o NewerThan(Tail(requests), limit)
    ELSE NewerThan(Tail(requests), limit)

\* the two request lists after _cleanup_old_requests(now)
_cleanup_old_requests(hourly, daily, t) ==
    [hourly_requests |-> NewerThan(hourly, t - Hour),
     daily_requests |-> NewerThan(daily, t - Day)]

\* the test of the limits with <= in place of <
CanMakeRequestAtLimit(hourly, daily, t) ==
    LET cleaned == _cleanup_old_requests(hourly, daily, t)
    IN  /\ Len(cleaned.hourly_requests) <= RequestsPerHour
        /\ Len(cleaned.daily_requests) <= RequestsPerDay

can_make_request(hourly, daily, t) ==
    LET cleaned == _cleanup_old_requests(hourly, daily, t)
    IN  /\ Len(cleaned.hourly_requests) < RequestsPerHour
        /\ Len(cleaned.daily_requests) < RequestsPerDay

\* seconds until the oldest request of the hourly list expires
get_wait_time(hourly, t) ==
    IF Len(hourly) = 0 THEN 0
    ELSE LET oldest_request ==
                 CHOOSE r \in {hourly[k] : k \in 1..Len(hourly)} :
                     \A k \in 1..Len(hourly) : r <= hourly[k]
             wait_time == (oldest_request + Hour - t) * SecondsPerHour
         IN  IF wait_time > 0 THEN wait_time ELSE 0

\* the refusal reworded so that it no longer holds the words "Rate limit"
ThrottledMessage(wait_time) ==
    "Too many requests. Wait " \o ToString(wait_time) \o " seconds."

RateLimitMessage(wait_time) ==
    "Rate limit exceeded. Wait " \o ToString(wait_time) \o " seconds."

(***************************************************************************)
(* Responses of the API that the environment can give to a request.        *)
(***************************************************************************)
Response(score, has_device, name, parents, device_name, os_name, version, manufacturer, errors) ==
    [score |-> score, has_device |-> has_device, name |-> name,
     parents |-> parents, device_name |-> device_name, os_name |-> os_name,
     version |-> version, manufacturer |-> manufacturer, errors |-> errors]

computer90 ==
    Response(90, TRUE, "Windows OS", <<"Operating System">>,
             "Operating System/Windows OS", "Windows OS", "10.0", None, None)
computer45 ==
    Response(45, TRUE, "Windows OS", <<"Operating System">>,
             "Operating System/Windows OS", "Windows OS", "", None, None)
phone30 ==
    Response(30, TRUE, "Generic Android", <<"Phone, Tablet or Wearable">>,
             "Phone, Tablet or Wearable/Generic Android", "Android OS", "",
             None, None)
hwmfr85 ==
    Response(85, TRUE, "Intel Corporate", <<"Hardware Manufacturer">>,
             "Hardware Manufacturer/Intel Corporate", None, "",
             "Intel Corporate", None)
hwrouter85 ==
    Response(85, TRUE, "Netgear Router", <<"Hardware Manufacturer">>,
             "Hardware Manufacturer/Netgear Router", None, "", "Netgear",
             None)
nullparent73 ==
    Response(73, TRUE, "Dell Latitude", <<None, "Laptop">>,
             "Hardware/Laptop/Dell Latitude", None, "", None, None)
nullparent_nomatch ==
    Response(73, TRUE, "Acme Box", <<None, "Acme">>, "Acme/Acme Box", None,
             "", None, None)
\* device information and score 0 (or no "score" key: the parse reads 0)
computer0 ==
    Response(0, TRUE, "Windows OS", <<"Operating System">>,
             "Operating System/Windows OS", "Windows OS", "", None, None)
nomatch ==
    Response(0, FALSE, None, <<>>, None, None, "", None, None)
apierror ==
    Response(0, FALSE, None, <<>>, None, None, "", None, "Invalid API key")
osonly60 ==
    Response(60, FALSE, None, <<>>, None, "Linux OS", "", None, None)
tv55 ==
    Response(55, TRUE, "Samsung Smart TV", <<"Audio, Video or Imaging">>,
             "Audio, Video or Imaging/Samsung Smart TV", None, "", "Samsung",
             None)
iot58 ==
    Response(58, TRUE, "Generic Embedded", <<"Internet of Things (IoT)">>,
             "Internet of Things (IoT)/Generic Embedded", "Linux OS", "",
             None, None)

(***************************************************************************)
(* _classify_device, step by step.  Each operator is the effect of one     *)
(* step of the method on the DeviceClassificationResult under              *)
(* construction.                                                           *)
(***************************************************************************)
\* DeviceClassificationResult(mac_address=..., hostname=..., ...)
NewResult(mac_address, best_entry) ==
    [mac_address |-> mac_address,
     hostname |-> best_entry.hostname,
     dhcp_fingerprint |-> best_entry.dhcp_fingerprint,
     vendor_class |-> best_entry.vendor_class,
     vendor |-> None, vendor_confidence |-> "unknown",
     device_type |-> None, device_name |-> None,
     operating_system |-> None, classification |-> None,
     classification_method |-> "unknown",
     overall_confidence |-> "unknown",
     fingerbank_confidence |-> NoScore,
     dhcp_fingerprint_confidence |-> None,
     fingerbank_error |-> None]

\* Step 1: vendor lookup
VendorStep(result) ==
    LET vendor_info == lookup_vendor(result.mac_address)
    IN  IF Truthy(vendor_info.vendor)
        THEN [result EXCEPT !.vendor = vendor_info.vendor,
                            !.vendor_confidence = vendor_info.confidence]
        ELSE result

\* Step 2: the oracle answered without an error message
OracleAccepted(fingerbank_result) == ~Truthy(fingerbank_result.error_message)

\* Step 2 storing the score and the device name before it looks at the
\* error message
OracleStepScoreFirst(result, fingerbank_result) ==
    IF OracleAccepted(fingerbank_result)
    THEN [result EXCEPT
             !.fingerbank_confidence = fingerbank_result.confidence_score,
             !.device_name = fingerbank_result.device_name,
             !.device_type =
                 IF Truthy(fingerbank_result.device_type)
                 THEN fingerbank_result.device_type ELSE @,
             !.classification_method =
                 IF Truthy(fingerbank_result.device_type)
                 THEN "fingerbank" ELSE @,
             !.operating_system =
                 IF Truthy(fingerbank_result.operating_system)
                 THEN fingerbank_result.operating_system ELSE @]
    ELSE [result EXCEPT
             !.fingerbank_confidence = fingerbank_result.confidence_score,
             !.device_name = fingerbank_result.device_name,
             !.fingerbank_error = fingerbank_result.error_message]

\* Step 2: the oracle's answer taken as the primary classification
OracleStep(result, fingerbank_result) ==
    IF OracleAccepted(fingerbank_result)
    THEN [result EXCEPT
             !.fingerbank_confidence = fingerbank_result.confidence_score,
             !.device_name = fingerbank_result.device_name,
             !.device_type =
                 IF Truthy(fingerbank_result.device_type)
                 THEN fingerbank_result.device_type ELSE @,
             !.classification_method =
                 IF Truthy(fingerbank_result.device_type)
                 THEN "fingerbank" ELSE @,
             !.operating_system =
                 IF Truthy(fingerbank_result.operating_system)
                 THEN fingerbank_result.operating_system ELSE @]
    ELSE [result EXCEPT !.fingerbank_error = fingerbank_result.error_message]

OracleClassified(fingerbank_result) ==
    OracleAccepted(fingerbank_result) /\ Truthy(fingerbank_result.device_type)

\* Step 2.5 recording the enhanced classifier's method without the prefix
EnhancedPreferredStepPlainMethod(result, best_entry) ==
    LET enhanced_result ==
            _try_enhanced_classification_preferred(best_entry, result.vendor)
    IN  IF Truthy(enhanced_result.device_type)
        THEN [result EXCEPT
                 !.device_type = enhanced_result.device_type,
                 !.operating_system = enhanced_result.operating_system,
                 !.classification_method = enhanced_result.method,
                 !.overall_confidence = enhanced_result.confidence]
        ELSE result

\* Step 2.5: the enhanced result used instead of the oracle's
EnhancedPreferredStep(result, best_entry) ==
    LET enhanced_result ==
            _try_enhanced_classification_preferred(best_entry, result.vendor)
    IN  IF Truthy(enhanced_result.device_type)
        THEN [result EXCEPT
                 !.device_type = enhanced_result.device_type,
                 !.operating_system = enhanced_result.operating_system,
                 !.classification_method =
                     "enhanced_preferred_" \o enhanced_result.method,
                 !.overall_confidence = enhanced_result.confidence]
        ELSE result

\* Step 2.6: selective override of the oracle's type by the hostname
SelectiveOverrideStep(result, best_entry, fingerbank_result) ==
    LET override_result ==
            _apply_selective_override(fingerbank_result, best_entry.hostname,
                                      result.vendor, result.device_type)
    IN  IF Truthy(best_entry.hostname) /\ Truthy(override_result.device_type)
        THEN [result EXCEPT
                 !.device_type = override_result.device_type,
                 !.operating_system = override_result.operating_system,
                 !.classification_method = override_result.method,
                 !.overall_confidence = "high"]
        ELSE result

\* the hostname fallback writing its operating system without testing that
\* the field is still empty
HostnameFallbackStepOverwriting(result, best_entry) ==
    IF ~Truthy(best_entry.hostname) THEN result
    ELSE LET fallback_result ==
                 enhanced_classification(best_entry.hostname,
                                         best_entry.vendor_class,
                                         best_entry.dhcp_fingerprint,
                                         result.vendor)
         IN  IF fallback_result.hostname_override
                /\ Truthy(fallback_result.device_type)
             THEN [result EXCEPT
                      !.device_type = fallback_result.device_type,
                      !.classification_method = "hostname_specific",
                      !.operating_system =
                          IF Truthy(fallback_result.operating_system)
                          THEN fallback_result.operating_system ELSE @]
             ELSE result

\* Step 3, first part: hostname-specific classification
HostnameFallbackStep(result, best_entry) ==
    IF ~Truthy(best_entry.hostname) THEN result
    ELSE LET fallback_result ==
                 enhanced_classification(best_entry.hostname,
                                         best_entry.vendor_class,
                                         best_entry.dhcp_fingerprint,
                                         result.vendor)
         IN  IF fallback_result.hostname_override
                /\ Truthy(fallback_result.device_type)
             THEN [result EXCEPT
                      !.device_type = fallback_result.device_type,
                      !.classification_method = "hostname_specific",
                      !.operating_system =
                          IF Truthy(fallback_result.operating_system)
                             /\ ~Truthy(@)
                          THEN fallback_result.operating_system ELSE @]
             ELSE result

\* Step 3, second part: DHCP fingerprint classification
DhcpFingerprintStep(result, best_entry) ==
    IF ~Truthy(result.device_type) /\ Truthy(best_entry.dhcp_fingerprint)
    THEN LET classified ==
                 classify_by_fingerprint(best_entry.dhcp_fingerprint,
                                         result.vendor,
                                         best_entry.vendor_class,
                                         best_entry.hostname)
         IN  IF Truthy(classified[1])
             THEN [result EXCEPT
                      !.device_type = classified[1],
                      !.dhcp_fingerprint_confidence = classified[2],
                      !.classification_method = "dhcp_fingerprint"]
             ELSE result
    ELSE result

\* the enhanced fallback filling the device type without naming itself
EnhancedFallbackStepUnnamed(result, best_entry) ==
    IF ~Truthy(result.device_type) \/ ~Truthy(result.operating_system)
    THEN LET fallback_result ==
                 enhanced_classification(best_entry.hostname,
                                         best_entry.vendor_class,
                                         best_entry.dhcp_fingerprint,
                                         result.vendor)
             fills_type == ~Truthy(result.device_type)
                           /\ Truthy(fallback_result.device_type)
         IN  [result EXCEPT
                 !.device_type =
                     IF fills_type THEN fallback_result.device_type ELSE @,
                 !.operating_system =
                     IF ~Truthy(@)
                        /\ Truthy(fallback_result.operating_system)
                     THEN fallback_result.operating_system ELSE @]
    ELSE result

\* Step 3, third part: enhanced fallback for the remaining gaps
EnhancedFallbackStep(result, best_entry) ==
    IF ~Truthy(result.device_type) \/ ~Truthy(result.operating_system)
    THEN LET fallback_result ==
                 enhanced_classification(best_entry.hostname,
                                         best_entry.vendor_class,
                                         best_entry.dhcp_fingerprint,
                                         result.vendor)
             fills_type == ~Truthy(result.device_type)
                           /\ Truthy(fallback_result.device_type)
         IN  [result EXCEPT
                 !.device_type =
                     IF fills_type THEN fallback_result.device_type ELSE @,
                 !.classification_method =
                     IF fills_type THEN "enhanced_fallback" ELSE @,
                 !.operating_system =
                     IF ~Truthy(@)
                        /\ Truthy(fallback_result.operating_system)
                     THEN fallback_result.operating_system ELSE @]
    ELSE result

\* final result processing that leaves the overall confidence alone
FinalStepWithoutRecomputation(result) ==
    [result EXCEPT !.classification =
         IF Truthy(result.device_type) THEN result.device_type
         ELSE "Unknown"]

\* final result processing
FinalStep(result) ==
    LET classified ==
            [result EXCEPT !.classification =
                 IF Truthy(result.device_type) THEN result.device_type
                 ELSE "Unknown"]
    IN  [classified EXCEPT
            !.overall_confidence = _calculate_overall_confidence(classified)]

\* Step 3 as a whole
LocalFallback(result, best_entry) ==
    EnhancedFallbackStep(
        DhcpFingerprintStep(HostnameFallbackStep(result, best_entry),
                            best_entry),
        best_entry)

\* the result of _classify_device when no oracle client is configured
ClassifyWithoutOracle(mac_address, entries) ==
    LET best_entry == _get_best_entry(entries)
    IN  FinalStep(LocalFallback(VendorStep(NewResult(mac_address, best_entry)),
                                best_entry))

\* the result of _classify_device when the oracle answers fingerbank_result;
\* defined when the routing decision does not raise
ClassifyWithOracle(mac_address, entries, fingerbank_result) ==
    LET best_entry == _get_best_entry(entries)
        after_oracle ==
            OracleStep(VendorStep(NewResult(mac_address, best_entry)),
                       fingerbank_result)
    IN  IF OracleClassified(fingerbank_result)
        THEN IF _should_route_to_enhanced_classifier(fingerbank_result,
                                                     best_entry,
                                                     after_oracle.vendor)
             THEN FinalStep(EnhancedPreferredStep(after_oracle, best_entry))
             ELSE FinalStep(SelectiveOverrideStep(after_oracle, best_entry,
                                                  fingerbank_result))
        ELSE FinalStep(LocalFallback(after_oracle, best_entry))

(***************************************************************************)
(* The analyzer as a state machine.                                        *)
(*   dhcp_entries           the entries parsed from the log                *)
(*   fingerbank_client      TRUE iff an oracle client is configured        *)
(*   pc                     position in analyze_dhcp_log/_classify_device  *)
(*   device_entries         the entries grouped by MAC, in first-seen      *)
(*                          order                                          *)
(*   device_index           index of the device being classified           *)
(*   results                the results appended so far                    *)
(*   best_entry, result, fingerbank_result, should_use_enhanced            *)
(*                          locals of _classify_device                     *)
(*   successful_requests, failed_requests, rate_limited_requests           *)
(*                          counters of the oracle client                  *)
(*   hourly_requests, daily_requests                                       *)
(*                          request times kept by the rate limiter         *)
(*   now                    the clock, in hours                            *)
(*   ec_entry, ec_step, ec_result                                          *)
(*                          one call of enhanced_classification, method    *)
(*                          by method                                      *)
(*   rt_args, rt_return     one call of                                    *)
(*                          _should_route_to_enhanced_classifier           *)
(*   fn_args, fn_return     one call of another function on its own: the   *)
(*                          arguments, and <<>> until it returns, then     *)
(*                          <<value returned>>                             *)
(***************************************************************************)
VARIABLES dhcp_entries, fingerbank_client, pc, device_entries, device_index,
          results, best_entry, result, fingerbank_result, should_use_enhanced,
          successful_requests, failed_requests, rate_limited_requests,
          hourly_requests, daily_requests, now,
          ec_entry, ec_step, ec_result, rt_args, rt_return,
          fn_args, fn_return

batch_vars == <<dhcp_entries, fingerbank_client, device_entries, device_index,
                results>>
device_vars == <<best_entry, result, fingerbank_result, should_use_enhanced>>
counter_vars == <<successful_requests, failed_requests, rate_limited_requests>>
limiter_vars == <<hourly_requests, daily_requests>>
client_vars == <<counter_vars, limiter_vars, now>>
ec_vars == <<ec_entry, ec_step, ec_result>>
rt_vars == <<rt_args, rt_return>>
fn_vars == <<fn_args, fn_return>>
vars == <<batch_vars, pc, device_vars, client_vars, ec_vars, rt_vars, fn_vars>>

\* a DHCPLogEntry
Entry(mac_address, hostname, vendor_class, dhcp_fingerprint, message_type) ==
    [mac_address |-> mac_address, hostname |-> hostname,
     vendor_class |-> vendor_class, dhcp_fingerprint |-> dhcp_fingerprint,
     message_type |-> message_type]

NoEntry == Entry("", None, None, None, "")

MaxNow == 1

\* the logs analysed: one or two devices, one to three entries per device
Logs ==
    { <<>>,
      <<Entry("8c:85:90:00:00:01", "ring-doorbell-1", None, None, "ACK")>>,
      <<Entry("aa:bb:cc:00:00:02", "smart-ring-doorbell", None, None,
              "ACK")>>,
      <<Entry("5c:f9:38:00:00:03", "smart-tv-1", None, None, "REQUEST")>>,
      <<Entry("00:1b:21:00:00:04", "DESKTOP-WIN10", "MSFT 5.0",
              "1,3,6,15,31,33,43,44,46,47,119,121,249,252", "ACK")>>,
      <<Entry("00:1B:21:00:00:05", None, "android-dhcp-13",
              "1,3,6,15,26,28,51,58,59,43", "DISCOVER")>>,
      <<Entry("aa:bb:cc:00:00:06", None, None, None, "DISCOVER")>>,
      <<Entry("aa:bb:cc:00:00:07", "roku-3", "udhcp 1.24.1", "1,3,6", "ACK")>>,
      <<Entry("00:03:93:00:00:08", "iphone-12", None, "1,121,3,6,15,119,252",
              "ACK")>>,
      <<Entry("aa:bb:cc:00:00:09", "server-1", None, None, "ACK")>>,
      <<Entry("aa:bb:cc:00:00:0a", "galaxy-s21", None, None, "ACK")>>,
      <<Entry("B8-27-EB-00-00-0B", None, None, None, "DISCOVER"),
        Entry("aa:bb:cc:00:00:0c", "ps5-console", None, None, "REQUEST"),
        Entry("B8-27-EB-00-00-0B", "raspberrypi", None, None, "REQUEST"),
        Entry("B8-27-EB-00-00-0B", "raspberrypi", None, None, "ACK")>>,
      <<Entry("aa:bb:cc:00:00:0d", "firetv-stick-1", None, None, "ACK"),
        Entry("00:03:93:00:00:0e", None, None, "1,3,6", "ACK"),
        Entry("aa:bb:cc:00:00:0d", "firetv-stick-1", "dhcpcd-6.8.2", None,
              "DISCOVER")>> }

\* the responses the API can give
Responses ==
    {computer90, computer45, phone30, hwmfr85, hwrouter85, nullparent73,
     nullparent_nomatch, nomatch, apierror, osonly60, tv55, iot58, computer0}

\* str(e) of the exceptions the HTTP request can end with after its retries
RequestErrors ==
    {"HTTPSConnectionPool(host='api.fingerbank.org', port=443): Read timed out. (read timeout=30)",
     "429 Client Error: Too Many Requests for url: https://api.fingerbank.org/api/v2/combinations/interrogate"}

\* the value of fingerbank_result before the oracle is asked
NoResult == ErrorClassification(None)

\* no function is called on its own
NoCall == fn_args = <<>> /\ fn_return = <<>>

Idle ==
    /\ NoCall
    /\ ec_entry = [hostname |-> None, vendor_class |-> None,
                   dhcp_fingerprint |-> None, vendor |-> None]
    /\ ec_step = NumMethods
    /\ ec_result = InitialResult
    /\ rt_args = [fingerbank_result |-> NoResult, dhcp_entry |-> NoEntry,
                  vendor |-> "Unknown"]
    /\ rt_return = "off"

\* the analyzer and its oracle client after construction
AnalyzerLocals ==
    /\ device_entries = <<>>
    /\ device_index = 0
    /\ results = <<>>
    /\ best_entry = NoEntry
    /\ result = NewResult("", NoEntry)
    /\ fingerbank_result = NoResult
    /\ should_use_enhanced = FALSE
    /\ successful_requests = 0
    /\ failed_requests = 0
    /\ rate_limited_requests = 0
    /\ hourly_requests = <<>>
    /\ daily_requests = <<>>
    /\ now = 0

\* no batch is analysed
AnalyzerOff ==
    /\ dhcp_entries = <<>>
    /\ fingerbank_client = FALSE
    /\ pc = "off"
    /\ AnalyzerLocals

Init ==
    /\ dhcp_entries \in Logs
    /\ fingerbank_client \in BOOLEAN
    /\ pc = "start"
    /\ AnalyzerLocals
    /\ Idle

(***************************************************************************)
(* analyze_dhcp_log                                                        *)
(***************************************************************************)
\* the log is parsed and its entries are grouped by MAC
StartAnalysis ==
    /\ pc = "start"
    /\ device_entries' = _group_entries_by_device(dhcp_entries)
    /\ device_index' = 1
    /\ results' = <<>>
    /\ pc' = "next_device"
    /\ UNCHANGED <<dhcp_entries, fingerbank_client, device_vars, client_vars,
                   ec_vars, rt_vars, fn_vars>>

\* the loop takes the next device and _classify_device starts on it
BeginDevice ==
    /\ pc = "next_device"
    /\ device_index <= Len(device_entries)
    /\ best_entry' = _get_best_entry(device_entries[device_index].entries)
    /\ result' = NewResult(device_entries[device_index].mac_address,
                           best_entry')
    /\ fingerbank_result' = NoResult
    /\ should_use_enhanced' = FALSE
    /\ pc' = "vendor_lookup"
    /\ UNCHANGED <<batch_vars, client_vars, ec_vars, rt_vars, fn_vars>>

\* Step 1
VendorLookup ==
    /\ pc = "vendor_lookup"
    /\ result' = VendorStep(result)
    /\ pc' = "fingerbank"
    /\ UNCHANGED <<batch_vars, best_entry, fingerbank_result,
                   should_use_enhanced, client_vars, ec_vars, rt_vars, fn_vars>>

\* time passes; the clock is read by the rate limiter of the oracle client
Tick ==
    /\ pc = "fingerbank"
    /\ fingerbank_client
    /\ now < MaxNow
    /\ now' = now + 1
    /\ UNCHANGED <<batch_vars, pc, device_vars, counter_vars, limiter_vars,
                   ec_vars, rt_vars, fn_vars>>

\* Step 2 with no client configured
NoOracle ==
    /\ pc = "fingerbank"
    /\ ~fingerbank_client
    /\ pc' = "hostname_fallback"
    /\ UNCHANGED <<batch_vars, device_vars, client_vars, ec_vars, rt_vars, fn_vars>>

\* the rest of Step 2 once classify_device has returned classification
AfterOracle(classification) ==
    /\ fingerbank_result' = classification
    /\ result' = OracleStep(result, classification)
    /\ pc' = IF OracleClassified(classification) THEN "routing"
             ELSE "hostname_fallback"
    /\ UNCHANGED <<batch_vars, best_entry, should_use_enhanced, now, ec_vars,
                   rt_vars, fn_vars>>

\* classify_device catches the exception of the request: its text decides
\* which counter is incremented, and an error result is returned
RequestRaised(error_msg) ==
    /\ IF Contains(error_msg, "Rate limit")
       THEN /\ rate_limited_requests' = rate_limited_requests + 1
            /\ UNCHANGED failed_requests
       ELSE /\ failed_requests' = failed_requests + 1
            /\ UNCHANGED rate_limited_requests
    /\ UNCHANGED successful_requests
    /\ AfterOracle(ErrorClassification(error_msg))

\* Step 2: the rate limiter refuses, nothing is sent
OracleRateLimited ==
    LET cleaned == _cleanup_old_requests(hourly_requests, daily_requests, now)
    IN  /\ pc = "fingerbank"
        /\ fingerbank_client
        /\ ~can_make_request(hourly_requests, daily_requests, now)
        /\ hourly_requests' = cleaned.hourly_requests
        /\ daily_requests' = cleaned.daily_requests
        /\ RequestRaised(
               RateLimitMessage(get_wait_time(cleaned.hourly_requests, now)))

\* Step 2: the request is sent and fails after its retries
OracleRequestFails ==
    LET cleaned == _cleanup_old_requests(hourly_requests, daily_requests, now)
    IN  /\ pc = "fingerbank"
        /\ fingerbank_client
        /\ can_make_request(hourly_requests, daily_requests, now)
        /\ hourly_requests' = cleaned.hourly_requests
        /\ daily_requests' = cleaned.daily_requests
        /\ \E error_msg \in RequestErrors : RequestRaised(error_msg)

\* Step 2: the request is sent, recorded and its response parsed
OracleResponds ==
    LET cleaned == _cleanup_old_requests(hourly_requests, daily_requests, now)
    IN  /\ pc = "fingerbank"
        /\ fingerbank_client
        /\ can_make_request(hourly_requests, daily_requests, now)
        /\ \E response_data \in Responses :
            LET classification == _parse_api_response(response_data)
            IN  /\ hourly_requests' = Append(cleaned.hourly_requests, now)
                /\ daily_requests' = Append(cleaned.daily_requests, now)
                /\ IF Truthy(classification.error_message)
                   THEN /\ failed_requests' = failed_requests + 1
                        /\ UNCHANGED successful_requests
                   ELSE /\ successful_requests' = successful_requests + 1
                        /\ UNCHANGED failed_requests
                /\ UNCHANGED rate_limited_requests
                /\ AfterOracle(classification)

\* Step 2.5: the routing decision
RoutingDecision ==
    /\ pc = "routing"
    /\ ~RouteRaises(fingerbank_result)
    /\ should_use_enhanced' =
           _should_route_to_enhanced_classifier(fingerbank_result, best_entry,
                                                result.vendor)
    /\ pc' = IF should_use_enhanced' THEN "enhanced_preferred"
             ELSE "selective_override"
    /\ UNCHANGED <<batch_vars, best_entry, result, fingerbank_result,
                   client_vars, ec_vars, rt_vars, fn_vars>>

\* Step 2.5: the routing decision raises TypeError, which nothing catches
\* in _classify_device or in analyze_dhcp_log
RoutingRaises ==
    /\ pc = "routing"
    /\ RouteRaises(fingerbank_result)
    /\ pc' = "raised"
    /\ UNCHANGED <<batch_vars, device_vars, client_vars, ec_vars, rt_vars, fn_vars>>

\* Step 2.5: the enhanced classifier is preferred to the oracle
EnhancedPreferred ==
    /\ pc = "enhanced_preferred"
    /\ result' = EnhancedPreferredStep(result, best_entry)
    /\ pc' = "final"
    /\ UNCHANGED <<batch_vars, best_entry, fingerbank_result,
                   should_use_enhanced, client_vars, ec_vars, rt_vars, fn_vars>>

\* Step 2.6
SelectiveOverride ==
    /\ pc = "selective_override"
    /\ result' = SelectiveOverrideStep(result, best_entry, fingerbank_result)
    /\ pc' = "final"
    /\ UNCHANGED <<batch_vars, best_entry, fingerbank_result,
                   should_use_enhanced, client_vars, ec_vars, rt_vars, fn_vars>>

\* Step 3, hostname-specific classification
HostnameFallback ==
    /\ pc = "hostname_fallback"
    /\ result' = HostnameFallbackStep(result, best_entry)
    /\ pc' = "dhcp_fallback"
    /\ UNCHANGED <<batch_vars, best_entry, fingerbank_result,
                   should_use_enhanced, client_vars, ec_vars, rt_vars, fn_vars>>

\* Step 3, DHCP fingerprint classification
DhcpFingerprintFallback ==
    /\ pc = "dhcp_fallback"
    /\ result' = DhcpFingerprintStep(result, best_entry)
    /\ pc' = "enhanced_fallback"
    /\ UNCHANGED <<batch_vars, best_entry, fingerbank_result,
                   should_use_enhanced, client_vars, ec_vars, rt_vars, fn_vars>>

\* Step 3, enhanced fallback
EnhancedFallback ==
    /\ pc = "enhanced_fallback"
    /\ result' = EnhancedFallbackStep(result, best_entry)
    /\ pc' = "final"
    /\ UNCHANGED <<batch_vars, best_entry, fingerbank_result,
                   should_use_enhanced, client_vars, ec_vars, rt_vars, fn_vars>>

\* final result processing; the result is returned and appended
FinalProcessing ==
    /\ pc = "final"
    /\ result' = FinalStep(result)
    /\ results' = Append(results, result')
    /\ device_index' = device_index + 1
    /\ pc' = "next_device"
    /\ UNCHANGED <<dhcp_entries, fingerbank_client, device_entries,
                   best_entry, fingerbank_result, should_use_enhanced,
                   client_vars, ec_vars, rt_vars, fn_vars>>

\* the loop is over and the results are returned
ReturnResults ==
    /\ pc = "next_device"
    /\ device_index > Len(device_entries)
    /\ pc' = "returned"
    /\ UNCHANGED <<batch_vars, device_vars, client_vars, ec_vars, rt_vars, fn_vars>>

Next ==
    \/ StartAnalysis
    \/ BeginDevice
    \/ VendorLookup
    \/ Tick
    \/ NoOracle
    \/ OracleRateLimited
    \/ OracleRequestFails
    \/ OracleResponds
    \/ RoutingDecision
    \/ RoutingRaises
    \/ EnhancedPreferred
    \/ SelectiveOverride
    \/ HostnameFallback
    \/ DhcpFingerprintFallback
    \/ EnhancedFallback
    \/ FinalProcessing
    \/ ReturnResults

Spec == Init /\ [][Next]_vars

(***************************************************************************)
(* One call of enhanced_classification, method by method.                  *)
(***************************************************************************)
ECHostnames ==
    {None, "smart-tv-1", "ring-doorbell-1", "Ring-Doorbell-Front",
     "iphone-12", "server-1", "DESKTOP-WIN10", "firetv-stick-1",
     "raspberrypi", "galaxy-s21", "smart-ring-doorbell", "nintendo-switch",
     "router"}
ECVendorClasses == {None, "MSFT 5.0", "android-dhcp-13", "udhcp 1.24.1"}
ECFingerprints ==
    {None, "1,3,6,15,31,33,43,44,46,47,119,121,249,252",
     "1,121,3,6,15,119,252"}
ECVendors ==
    {None, "Unknown", "Apple, Inc.", "Samsung Electronics Co.,Ltd",
     "Samsung Electronics", "Intel Corporate", "Microsoft Corporation"}

\* vendors of chipsets, motherboards and graphics cards
ComponentVendors ==
    {"Intel Corporate", "GIGA-BYTE TECHNOLOGY CO.,LTD.",
     "Micro-Star INTL CO., LTD.", "ASRock Incorporation",
     "NVIDIA Corporation", "AMD", "Realtek Semiconductor Corp.",
     "Broadcom Inc."}

\* their interfaces without a hostname
ComponentInputs ==
    [hostname : {None}, vendor_class : {"android-dhcp-13"},
     dhcp_fingerprint : ECFingerprints, vendor : ComponentVendors]

\* manufacturer strings of the vendor lookup
ManufacturerStrings ==
    {"", "ecobee inc.", "TP-LINK TECHNOLOGIES CO.,LTD.", "Espressif Inc.",
     "Raspberry Pi Foundation", "Amazon Technologies Inc.", "Google, Inc.",
     "Hewlett Packard", "Dell Inc.", "NETGEAR", "Cisco Systems, Inc",
     "Ubiquiti Networks Inc.", "Sony Interactive Entertainment Inc.",
     "Nintendo Co.,Ltd"} \cup ComponentVendors

\* interfaces of which only the manufacturer is known
VendorOnlyInputs ==
    [hostname : {None}, vendor_class : {None}, dhcp_fingerprint : {None},
     vendor : ManufacturerStrings]

ECInputs ==
    [hostname : ECHostnames, vendor_class : ECVendorClasses,
     dhcp_fingerprint : ECFingerprints, vendor : ECVendors]

InitEC ==
    /\ ec_entry \in ECInputs \cup ComponentInputs \cup VendorOnlyInputs
    /\ ec_step = 0
    /\ ec_result = InitialResult
    /\ rt_args = [fingerbank_result |-> NoResult, dhcp_entry |-> NoEntry,
                  vendor |-> "Unknown"]
    /\ rt_return = "off"
    /\ NoCall
    /\ AnalyzerOff

\* what a method leaves alone
ec_frame == <<ec_entry, batch_vars, pc, device_vars, client_vars, rt_vars, fn_vars>>

\* Method 1: hostname analysis
HostnameAnalysis ==
    /\ ec_step = 0
    /\ ec_result' = Method1(ec_result, ec_entry)
    /\ ec_step' = 1
    /\ UNCHANGED ec_frame

\* Method 2: DHCP fingerprint
DhcpFingerprintTable ==
    /\ ec_step = 1
    /\ ec_result' = Method2(ec_result, ec_entry)
    /\ ec_step' = 2
    /\ UNCHANGED ec_frame

\* Method 3: vendor class
VendorClassTable ==
    /\ ec_step = 2
    /\ ec_result' = Method3(ec_result, ec_entry)
    /\ ec_step' = 3
    /\ UNCHANGED ec_frame

\* Method 4: IoT signatures
IotSignatures ==
    /\ ec_step = 3
    /\ ec_result' = Method4(ec_result, ec_entry)
    /\ ec_step' = 4
    /\ UNCHANGED ec_frame

\* Method 5: vendor-specific rules
VendorRules ==
    /\ ec_step = 4
    /\ ec_result' = Method5(ec_result, ec_entry)
    /\ ec_step' = 5
    /\ UNCHANGED ec_frame

\* Method 6: hostname analysis for the remaining fields
HostnameRemaining ==
    /\ ec_step = 5
    /\ ec_result' = Method6(ec_result, ec_entry)
    /\ ec_step' = 6
    /\ UNCHANGED ec_frame

\* Method 7: vendor-based inference
VendorInference ==
    /\ ec_step = 6
    /\ ec_result' = Method7(ec_result, ec_entry)
    /\ ec_step' = 7
    /\ UNCHANGED ec_frame

\* Method 8: vendor class context analysis
VendorClassContext ==
    /\ ec_step = 7
    /\ ec_result' = Method8(ec_result, ec_entry)
    /\ ec_step' = 8
    /\ UNCHANGED ec_frame

\* Method 9: hardware manufacturer context analysis
HardwareManufacturerContext ==
    /\ ec_step = 8
    /\ ec_result' = Method9(ec_result, ec_entry)
    /\ ec_step' = 9
    /\ UNCHANGED ec_frame

\* Method 10: hostname-vendor conflict resolution
ConflictResolution ==
    /\ ec_step = 9
    /\ ec_result' = Method10(ec_result, ec_entry)
    /\ ec_step' = 10
    /\ UNCHANGED ec_frame

NextEC ==
    \/ HostnameAnalysis
    \/ DhcpFingerprintTable
    \/ VendorClassTable
    \/ IotSignatures
    \/ VendorRules
    \/ HostnameRemaining
    \/ VendorInference
    \/ VendorClassContext
    \/ HardwareManufacturerContext
    \/ ConflictResolution

SpecEC == InitEC /\ [][NextEC]_vars

(***************************************************************************)
(* One call of _should_route_to_enhanced_classifier on an oracle result    *)
(* whose device_hierarchy is a list of strings.                            *)
(***************************************************************************)
RouteScores == {0, 40, 41, 50, 51, 55, 56, 60, 61, 85, 100}
RouteHierarchies ==
    {<<>>, <<"Hardware Manufacturer">>, <<"Operating System", "Windows OS">>,
     <<"Generic HARDWARE MANUFACTURER Device", "Networking">>}
RouteDeviceNames ==
    {None, "Hardware Manufacturer/Intel Corporate",
     "Operating System/Windows OS"}
RouteHostnames == {None, "ring-doorbell-1", "roku-3", "DESKTOP-WIN10"}
RouteVendors == {"Unknown", "Intel Corporate", "Apple, Inc."}
RouteVendorClasses == {None, "udhcp 1.24.1", "MSFT 5.0", "dhcpcd-6.8.2"}

RouteInputs ==
    {[fingerbank_result |->
          [NoResult EXCEPT !.confidence_score = score,
                           !.confidence_level = confidence_level_of(score),
                           !.device_hierarchy = hierarchy,
                           !.device_name = device_name,
                           !.device_type = "Computer"],
      dhcp_entry |-> Entry("aa:bb:cc:00:00:01", hostname, vendor_class, None,
                           "ACK"),
      vendor |-> vendor] :
        score \in RouteScores, hierarchy \in RouteHierarchies,
        device_name \in RouteDeviceNames, hostname \in RouteHostnames,
        vendor \in RouteVendors, vendor_class \in RouteVendorClasses}

InitRoute ==
    /\ rt_args \in RouteInputs
    /\ rt_return = "none"
    /\ ec_entry = [hostname |-> None, vendor_class |-> None,
                   dhcp_fingerprint |-> None, vendor |-> None]
    /\ ec_step = NumMethods
    /\ ec_result = InitialResult
    /\ NoCall
    /\ AnalyzerOff

\* the call returns its decision
RouteCall ==
    /\ rt_return = "none"
    /\ ~RouteRaises(rt_args.fingerbank_result)
    /\ rt_return' =
           IF _should_route_to_enhanced_classifier(rt_args.fingerbank_result,
                                                   rt_args.dhcp_entry,
                                                   rt_args.vendor)
           THEN "true" ELSE "false"
    /\ UNCHANGED <<rt_args, batch_vars, pc, device_vars, client_vars,
                   ec_vars, fn_vars>>

NextRoute == RouteCall

SpecRoute == InitRoute /\ [][NextRoute]_vars

(***************************************************************************)
(* Properties of one enhanced_classification call (SpecEC).                *)
(***************************************************************************)
\* the order low < medium < high of the confidence tiers; 0 for anything else
Rank(confidence) ==
    CASE confidence = "low" -> 1
      [] confidence = "medium" -> 2
      [] confidence = "high" -> 3
      [] OTHER -> 0

\* the result dict as Method 1 left it
AfterStepOne == Method1(InitialResult, ec_entry)

\* C5: once Method 1 has set hostname_override, the device_type and the
\* operating_system it chose (if it chose one) are those of the result after
\* every later method of the same call, the conflict resolution of Method 10
\* included.
C5_StepOneLocked ==
    (ec_step >= 1 /\ AfterStepOne.hostname_override)
        => /\ ec_result.device_type = AfterStepOne.device_type
           /\ Truthy(AfterStepOne.operating_system)
                  => ec_result.operating_system = AfterStepOne.operating_system

\* C7: every method of the chain leaves the confidence one of low, medium,
\* high and never below the value it had before the method ran.
C7_ConfidenceNeverDowngrades ==
    [][/\ Rank(ec_result'.confidence) >= Rank(ec_result.confidence)
       /\ Rank(ec_result'.confidence) >= 1]_vars

\* a finished call in which the confidence rose from low to medium and
\* then from medium to high
C7_Witness ==
    /\ ec_step = NumMethods
    /\ ec_result.confidence = "high"
    /\ \E n \in 1..(NumMethods - 1) :
           AfterMethod(n, ec_entry).confidence = "medium"

(***************************************************************************)
(* Properties of the routing decision (SpecRoute).                         *)
(***************************************************************************)
\* "hardware manufacturer", in any case, in a name of the oracle's
\* hierarchy or in its device name
NamesHardwareManufacturer(answer) ==
    \/ \E k \in 1..Len(answer.device_hierarchy) :
           Contains(lower(answer.device_hierarchy[k]),
                    "hardware manufacturer")
    \/ /\ answer.device_name # None
       /\ Contains(lower(answer.device_name),
                   "hardware manufacturer")

Trigger1(args) == args.fingerbank_result.confidence_score <= 40
Trigger2(args) == NamesHardwareManufacturer(args.fingerbank_result)
Trigger3(args) ==
    /\ args.dhcp_entry.hostname # None
    /\ \E k \in 1..Len(critical_patterns) :
           Contains(lower(args.dhcp_entry.hostname), critical_patterns[k])
Trigger4(args) ==
    /\ args.dhcp_entry.hostname # None
    /\ \E k \in 1..Len(strong_patterns) :
           Contains(lower(args.dhcp_entry.hostname), strong_patterns[k])
    /\ args.fingerbank_result.confidence_score <= 50
Trigger5(args) ==
    /\ \E k \in 1..Len(routing_component_manufacturers) :
           Contains(lower(args.vendor), routing_component_manufacturers[k])
    /\ args.fingerbank_result.confidence_score <= 60
Trigger6(args) ==
    /\ args.dhcp_entry.vendor_class # None
    /\ \E token \in {"udhcp", "busybox", "dhcpcd"} :
           Contains(lower(args.dhcp_entry.vendor_class), token)
    /\ args.fingerbank_result.confidence_score <= 55

Finished == pc \in {"next_device", "returned"} /\ device_index > 1

\* the log entries of the device classified last
FinishedEntries == device_entries[device_index - 1].entries

RingDoorbellClassified ==
    /\ Finished
    /\ Truthy(result.hostname)
    /\ Contains(lower(result.hostname), "ring-doorbell")
    /\ OracleClassified(fingerbank_result)

\* C1: a device whose hostname contains "ring-doorbell" and which the oracle
\* classified ends as a Smart Camera, whatever the oracle's score
C1_RingDoorbellIsSmartCamera ==
    RingDoorbellClassified => result.device_type = "Smart Camera"

OneResultPerMac ==
    /\ Len(results) = Len(device_entries)
    /\ \A i \in 1..Len(results) :
           results[i].mac_address = device_entries[i].mac_address
    /\ \A i, j \in 1..Len(results) :
           results[i].mac_address = results[j].mac_address => i = j

\* C2: the batch is never aborted by an exception raised for one device, and
\* it returns exactly one result for each distinct MAC address
C2_BatchNeverAborts ==
    /\ pc # "raised"
    /\ pc = "returned" => OneResultPerMac

OracleFailed ==
    /\ Finished
    /\ fingerbank_client
    /\ Truthy(fingerbank_result.error_message)

\* C3: when the oracle fails, the final result is the one the pipeline
\* produces without an oracle, except for the recorded fingerbank_error
C3_FailureEqualsNoOracle ==
    OracleFailed
        => result = [ClassifyWithoutOracle(result.mac_address, FinishedEntries)
                        EXCEPT !.fingerbank_error =
                                   fingerbank_result.error_message]

C3_Witness ==
    /\ OracleFailed
    /\ result.fingerbank_error = fingerbank_result.error_message
    /\ result.classification_method = "hostname_specific"
    /\ Truthy(result.device_type)

\* a step in which classify_device is called and returns
ClassifyDeviceCall ==
    pc = "fingerbank" /\ pc' # "fingerbank" /\ fingerbank_client

TotalRequests ==
    successful_requests + failed_requests + rate_limited_requests

\* C4: every classify_device call increments exactly one of the three
\* counters; a refusal by the local limiter counts as rate limited and not
\* as failed; every call that is not successful returns an error result and
\* sends the device to the local fallback
C4_OneCounterPerCall ==
    [][/\ ClassifyDeviceCall
          => /\ TotalRequests' = TotalRequests + 1
             /\ successful_requests' >= successful_requests
             /\ failed_requests' >= failed_requests
             /\ rate_limited_requests' >= rate_limited_requests
             /\ ~can_make_request(hourly_requests, daily_requests, now)
                    <=> rate_limited_requests' = rate_limited_requests + 1
             /\ successful_requests' = successful_requests
                    => Truthy(fingerbank_result'.error_message)
             /\ Truthy(fingerbank_result'.error_message)
                    => pc' = "hostname_fallback"
       /\ ~ClassifyDeviceCall => UNCHANGED counter_vars]_vars

C4_Witness ==
    /\ rate_limited_requests > 0
    /\ failed_requests > 0
    /\ successful_requests = 0
    /\ Contains(fingerbank_result.error_message, "Rate limit")

\* the three local fallback steps of Step 3
FallbackStepRuns ==
    pc \in {"hostname_fallback", "dhcp_fallback", "enhanced_fallback"}

\* the two branches of Steps 2.5 and 2.6
ResolutionStepRuns == pc \in {"enhanced_preferred", "selective_override"}

DeviceTypeReplaced ==
    Truthy(result.device_type) /\ result'.device_type # result.device_type

OperatingSystemReplaced ==
    /\ Truthy(result.operating_system)
    /\ result'.operating_system # result.operating_system

\* C6: a local fallback step never changes a device type or an operating
\* system that is already set; within the classification of one device
\* only the enhanced-preferred and the selective-override branch do
C6_FallbackOnlyFillsEmpty ==
    [][/\ FallbackStepRuns
          => ~DeviceTypeReplaced /\ ~OperatingSystemReplaced
       /\ (DeviceTypeReplaced \/ OperatingSystemReplaced)
          => ResolutionStepRuns \/ pc = "next_device"]_vars

\* the hostname fallback has set the device type of a device whose operating
\* system came from the oracle, and had an operating system of its own
C6_Witness ==
    /\ pc = "dhcp_fallback"
    /\ result.classification_method = "hostname_specific"
    /\ Truthy(fingerbank_result.operating_system)
    /\ result.operating_system = fingerbank_result.operating_system
    /\ LET fallback_result ==
               enhanced_classification(best_entry.hostname,
                                       best_entry.vendor_class,
                                       best_entry.dhcp_fingerprint,
                                       result.vendor)
       IN  /\ Truthy(fallback_result.operating_system)
           /\ fallback_result.operating_system # result.operating_system

\* the enhanced classification of the device classified last
FinishedFallback ==
    enhanced_classification(best_entry.hostname, best_entry.vendor_class,
                            best_entry.dhcp_fingerprint, result.vendor)

FallbackUsable ==
    /\ Truthy(FinishedFallback.device_type)
    /\ \/ FinishedFallback.confidence \in {"medium", "high"}
       \/ FinishedFallback.method \in {"hostname_specific", "iot_signature"}

\* C10: for a device routed to the fallback, the final device type is the
\* fallback's when the fallback has a device type and medium or high
\* confidence or the method hostname_specific or iot_signature; otherwise
\* the oracle's type and operating system are kept with method "fingerbank"
C10_RoutedResult ==
    (Finished /\ should_use_enhanced)
        => IF FallbackUsable
           THEN /\ result.device_type = FinishedFallback.device_type
                /\ result.classification_method =
                       "enhanced_preferred_" \o FinishedFallback.method
           ELSE /\ result.device_type = fingerbank_result.device_type
                /\ result.operating_system =
                       fingerbank_result.operating_system
                /\ result.classification_method = "fingerbank"

C10_Witness ==
    /\ Finished
    /\ should_use_enhanced
    /\ ~FallbackUsable
    /\ Truthy(FinishedFallback.device_type)
    /\ result.device_type = fingerbank_result.device_type
    /\ result.classification_method = "fingerbank"

(***************************************************************************)
(* Functions called on their own.                                          *)
(***************************************************************************)
\* nothing else runs while a function is called on its own
OnlyCall ==
    /\ ec_entry = [hostname |-> None, vendor_class |-> None,
                   dhcp_fingerprint |-> None, vendor |-> None]
    /\ ec_step = NumMethods
    /\ ec_result = InitialResult
    /\ rt_args = [fingerbank_result |-> NoResult, dhcp_entry |-> NoEntry,
                  vendor |-> "Unknown"]
    /\ rt_return = "off"
    /\ AnalyzerOff

\* what a call leaves alone
fn_frame == <<fn_args, batch_vars, pc, device_vars, client_vars, ec_vars,
              rt_vars>>

Returned == fn_return # <<>>

(***************************************************************************)
(* _apply_selective_override called on its own (SpecOverride).             *)
(***************************************************************************)
OverrideScores == {0, 40, 41, 60, 61, 100}

OverrideTypes ==
    {"Computer", "Phone", "Smart TV", "Smart Camera", "IoT Device",
     "Gaming Console", "Network Device"}

OverrideHostnames ==
    {None, "", "laptop-1", "Ring-Doorbell-Front", "nest-cam-2",
     "lg-tv-livingroom", "iphone-12", "hp-printer-x", "ps5-console",
     "playstation-5", "smart-tv-ring-camera", "echo-dot-kitchen"}

OverrideInputs ==
    [confidence_score : OverrideScores, current_device_type : OverrideTypes,
     hostname : OverrideHostnames]

InitOverride ==
    /\ fn_args \in OverrideInputs
    /\ fn_return = <<>>
    /\ OnlyCall

\* the call returns the override, or None
OverrideCall ==
    /\ fn_return = <<>>
    /\ fn_return' =
           <<_apply_selective_override(
                 [NoResult EXCEPT
                     !.confidence_score = fn_args.confidence_score,
                     !.device_type = fn_args.current_device_type],
                 fn_args.hostname, "Unknown", fn_args.current_device_type)>>
    /\ UNCHANGED fn_frame

NextOverride == OverrideCall

SpecOverride == InitOverride /\ [][NextOverride]_vars

\* the device types whose high-confidence tokens occur in the hostname
HostnameDerivedTypes(hostname) ==
    IF ~Truthy(hostname) THEN {}
    ELSE {high_confidence_patterns[k][1] :
              k \in {j \in 1..Len(high_confidence_patterns) :
                        AnyIn(high_confidence_patterns[j][2],
                              lower(hostname))}}

\* the conditions under which a hostname-derived type may replace the
\* oracle's type
OverrideAllowed(args, device_type) ==
    /\ device_type # args.current_device_type
    /\ \/ args.confidence_score <= 40
       \/ /\ args.confidence_score <= 60
          /\ _is_clear_device_conflict(args.current_device_type, device_type)
       \/ /\ args.confidence_score > 60
          /\ AnyIn(critical_override_patterns, lower(args.hostname))

\* C11: the selective override returns a hostname-derived device type only
\* if it differs from the oracle's type and the oracle's score is <= 40, or
\* <= 60 with the two types in non-overlapping categories, or > 60 with a
\* hostname of the critical override list; otherwise it returns no override
C11_SelectiveOverrideConditions ==
    Returned
        => IF Truthy(fn_return[1].device_type)
           THEN /\ fn_return[1].device_type
                       \in HostnameDerivedTypes(fn_args.hostname)
                /\ OverrideAllowed(fn_args, fn_return[1].device_type)
           ELSE \A device_type \in HostnameDerivedTypes(fn_args.hostname) :
                    ~OverrideAllowed(fn_args, device_type)

\* score 40, no conflict of categories and no critical token: the override
\* is returned because of the score alone
C11_Witness ==
    /\ Returned
    /\ fn_args.confidence_score = 40
    /\ fn_args.hostname = "hp-printer-x"
    /\ fn_args.current_device_type = "Computer"
    /\ fn_return[1].device_type = "Printer"
    /\ fn_return[1].method = "fingerbank_override_low_confidence_40"

(***************************************************************************)
(* _is_clear_device_conflict called on its own (SpecConflict).             *)
(***************************************************************************)
ConflictTypes ==
    {None, "Phone", "Tablet", "Computer", "Laptop", "Desktop", "Smart Camera",
     "Smart Speaker", "Smart Thermostat", "Smart TV", "Gaming Console",
     "Streaming Device", "Network Device", "Router", "Access Point",
     "IoT Device", "Printer"}

InitConflict ==
    /\ fn_args \in [fingerbank_type : ConflictTypes,
                    hostname_type : ConflictTypes]
    /\ fn_return = <<>>
    /\ OnlyCall

ConflictCall ==
    /\ fn_return = <<>>
    /\ fn_return' = <<_is_clear_device_conflict(fn_args.fingerbank_type,
                                                fn_args.hostname_type)>>
    /\ UNCHANGED fn_frame

NextConflict == ConflictCall

SpecConflict == InitConflict /\ [][NextConflict]_vars

\* the categories that list a type
CategoriesOf(type) ==
    {device_categories[k][1] :
         k \in {j \in 1..Len(device_categories) :
                   type \in device_categories[j][2]}}

\* the two types have categories, and no category of the one is a category
\* of the other or forms one of the given unordered pairs with it
DistinctCategoriesOutside(pairs, args) ==
    /\ CategoriesOf(args.fingerbank_type) # {}
    /\ CategoriesOf(args.hostname_type) # {}
    /\ \A fingerbank_category \in CategoriesOf(args.fingerbank_type),
          hostname_category \in CategoriesOf(args.hostname_type) :
           /\ fingerbank_category # hostname_category
           /\ {fingerbank_category, hostname_category} \notin pairs

\* C12: exactly smart-home/iot and entertainment/smart-home overlap; every
\* other pair of distinct categories is a clear conflict
C12_TwoOverlappingPairs ==
    Returned
        => (fn_return[1]
            <=> DistinctCategoriesOutside(
                    {{"smart_home", "iot"}, {"entertainment", "smart_home"}},
                    fn_args))

\* C12 as the code has it: entertainment/iot overlaps as well
C12_ThreeOverlappingPairs ==
    Returned
        => (fn_return[1]
            <=> DistinctCategoriesOutside(
                    {{"smart_home", "iot"}, {"entertainment", "smart_home"},
                     {"entertainment", "iot"}},
                    fn_args))

\* an oracle type of iot against a hostname type of entertainment is no
\* conflict
C12_Witness ==
    /\ Returned
    /\ fn_args.fingerbank_type = "Smart Camera"
    /\ fn_args.hostname_type = "Gaming Console"
    /\ fn_return[1] = FALSE

(***************************************************************************)
(* Properties of the results of the pipeline (Spec), continued.            *)
(***************************************************************************)
StartsWith(s, prefix) ==
    Len(s) >= Len(prefix) /\ SubSeq(s, 1, Len(prefix)) = prefix

\* the oracle classified the device classified last and its answer was
\* replaced by the enhanced classifier's or by the selective override
Overridden ==
    /\ Finished
    /\ OracleClassified(fingerbank_result)
    /\ \/ StartsWith(result.classification_method, "enhanced_preferred_")
       \/ StartsWith(result.classification_method, "fingerbank_override_")

\* C13: after an override of the oracle's result for a device with a
\* hostname, the final operating system is the one inferred from the
\* accepted device type and the hostname
C13_OverrideInfersOperatingSystem ==
    (Overridden /\ Truthy(result.hostname))
        => result.operating_system =
               _infer_os_from_device_type(result.device_type,
                                          lower(result.hostname))

(***************************************************************************)
(* _parse_api_response called on its own (SpecParse).                      *)
(***************************************************************************)
MaxScore == 100

\* responses with every score, with and without device information
ParseInputs ==
    {[response EXCEPT !.score = score] :
         response \in {computer90, nomatch}, score \in 0..MaxScore}

InitParse ==
    /\ fn_args \in ParseInputs
    /\ fn_return = <<>>
    /\ OnlyCall

ParseCall ==
    /\ fn_return = <<>>
    /\ fn_return' = <<_parse_api_response(fn_args)>>
    /\ UNCHANGED fn_frame

NextParse == ParseCall

SpecParse == InitParse /\ [][NextParse]_vars

\* C14: the score is bucketed as very_low below 30, moderate from 30 to 50,
\* high from 51 to 75 and very_high above 75
C14_ConfidenceBuckets ==
    Returned
        => /\ fn_return[1].confidence_score = fn_args.score
           /\ fn_args.score < 30
                  <=> fn_return[1].confidence_level = "very_low"
           /\ (fn_args.score >= 30 /\ fn_args.score <= 50)
                  <=> fn_return[1].confidence_level = "moderate"
           /\ (fn_args.score >= 51 /\ fn_args.score <= 75)
                  <=> fn_return[1].confidence_level = "high"
           /\ fn_args.score > 75
                  <=> fn_return[1].confidence_level = "very_high"

C14_Witness ==
    /\ Returned
    /\ fn_args.score = 30
    /\ fn_args.has_device
    /\ fn_return[1].confidence_level = "moderate"
    /\ fn_return[1].device_type = "Computer"

(***************************************************************************)
(* _get_best_entry called on its own (SpecBest).                           *)
(***************************************************************************)
MaxEntries == 3

\* the observations of one MAC: each field present or absent
BestObservations ==
    {Entry("aa:bb:cc:00:00:01", hostname, vendor_class, dhcp_fingerprint,
           message_type) :
         hostname \in {None, "laptop-1"}, vendor_class \in {None, "MSFT 5.0"},
         dhcp_fingerprint \in {None, "1,3,6"},
         message_type \in {"ACK", "DISCOVER"}}

BestInputs ==
    UNION {[1..n -> BestObservations] : n \in 1..MaxEntries}

InitBest ==
    /\ fn_args \in BestInputs
    /\ fn_return = <<>>
    /\ OnlyCall

BestCall ==
    /\ fn_return = <<>>
    /\ fn_return' = <<_get_best_entry(fn_args)>>
    /\ UNCHANGED fn_frame

NextBest == BestCall

SpecBest == InitBest /\ [][NextBest]_vars

\* +3 hostname, +2 vendor class, +2 parameter list, +1 message type ACK
ObservationScore(observation) ==
    (IF observation.hostname # None THEN 3 ELSE 0)
    + (IF observation.vendor_class # None THEN 2 ELSE 0)
    + (IF observation.dhcp_fingerprint # None THEN 2 ELSE 0)
    + (IF observation.message_type = "ACK" THEN 1 ELSE 0)

\* C15: the observation returned has the maximal score of the list and is
\* the first of the list with that score
C15_BestEntryIsFirstMaximal ==
    Returned
        => \E k \in 1..Len(fn_args) :
               /\ fn_return[1] = fn_args[k]
               /\ \A j \in 1..Len(fn_args) :
                      ObservationScore(fn_args[j])
                          <= ObservationScore(fn_args[k])
               /\ \A j \in 1..(k - 1) :
                      ObservationScore(fn_args[j])
                          < ObservationScore(fn_args[k])

\* scores 3, 4 and 6: the third observation is selected
C15_Witness ==
    /\ Returned
    /\ Len(fn_args) = 3
    /\ fn_args[1] = Entry("aa:bb:cc:00:00:01", "laptop-1", None, None,
                          "DISCOVER")
    /\ fn_args[2] = Entry("aa:bb:cc:00:00:01", None, "MSFT 5.0", "1,3,6",
                          "DISCOVER")
    /\ fn_args[3] = Entry("aa:bb:cc:00:00:01", "laptop-1", "MSFT 5.0", None,
                          "ACK")
    /\ fn_return[1] = fn_args[3]

(***************************************************************************)
(* The overall confidence of the final results.                            *)
(***************************************************************************)
\* the tier of a point sum
TierOf(points) ==
    IF points >= 80 THEN "high"
    ELSE IF points >= 50 THEN "medium"
    ELSE IF points >= 30 THEN "low"
    ELSE "unknown"

\* the contribution of the classification method, the oracle's lower scores
\* (0 included) counting 20
MethodPointsAnyScore(final) ==
    IF final.classification_method = "fingerbank"
    THEN IF final.fingerbank_confidence >= 80 THEN 60
         ELSE IF final.fingerbank_confidence >= 60 THEN 40
         ELSE 20
    ELSE IF final.classification_method = "hostname_specific" THEN 50
    ELSE IF final.classification_method = "dhcp_fingerprint"
    THEN IF final.dhcp_fingerprint_confidence = "high" THEN 40
         ELSE IF final.dhcp_fingerprint_confidence = "medium" THEN 25
         ELSE 10
    ELSE IF final.classification_method = "enhanced_fallback" THEN 15
    ELSE 0

\* the points that do not depend on the classification method
InformationPoints(final) ==
    (IF Truthy(final.vendor) THEN 20 ELSE 0)
    + (IF Truthy(final.hostname) THEN 10 ELSE 0)
    + (IF Truthy(final.vendor_class) THEN 10 ELSE 0)

\* C16: the final overall confidence is the tier of the point sum in which
\* method "fingerbank" counts 60 for a score >= 80, 40 for a score >= 60 and
\* 20 for every lower score, 0 included
C16_MethodPoints ==
    Finished
        => result.overall_confidence =
               TierOf(InformationPoints(result)
                      + MethodPointsAnyScore(result))

\* the vendor lookup did not find the OUI of the device classified last
VendorUnknown ==
    /\ Finished
    /\ result.vendor = "Unknown"
    /\ result.vendor_confidence = "none"

\* C17: a device whose OUI is not in the vendor table gets no vendor points:
\* its overall confidence is the tier of the sum without the vendor's 20
C17_UnknownVendorNoPoints ==
    VendorUnknown
        => result.overall_confidence =
               TierOf(ConfidencePoints([result EXCEPT !.vendor = None]))

\* the device classified last has no hostname, no vendor class and no
\* parameter list, and its OUI is not in the vendor table
NoInformation ==
    /\ VendorUnknown
    /\ ~Truthy(result.hostname)
    /\ ~Truthy(result.vendor_class)
    /\ ~Truthy(result.dhcp_fingerprint)

UnclassifiedLowConfidence ==
    /\ result.device_type = None
    /\ result.overall_confidence \in {"unknown", "low"}

\* C18 as stated: a device without any information ends with no device type
\* and overall confidence "unknown" or "low"
C18_NoInformationUnclassified ==
    NoInformation => UnclassifiedLowConfidence

\* C18: a device without any information for which the oracle gave no
\* device type (no oracle, a failure, or an answer without a device) ends
\* with no device type and overall confidence "unknown" or "low"
C18_NoInformationNoOracleType ==
    (NoInformation /\ ~OracleClassified(fingerbank_result))
        => UnclassifiedLowConfidence

\* the oracle answered without a device type for a device without information
C18_Witness ==
    /\ NoInformation
    /\ OracleAccepted(fingerbank_result)
    /\ result.fingerbank_confidence # NoScore
    /\ ~OracleClassified(fingerbank_result)
    /\ UnclassifiedLowConfidence

(***************************************************************************)
(* Scenarios of enhanced_classification.                                   *)
(***************************************************************************)
\* the call has returned
ECReturned == ec_step = NumMethods

\* a Ring doorbell hostname alone, on a Samsung interface
RingDoorbellOnSamsung ==
    /\ ECReturned
    /\ Truthy(ec_entry.hostname)
    /\ StartsWith(lower(ec_entry.hostname), "ring-doorbell")
    /\ ec_entry.vendor_class = None
    /\ ec_entry.dhcp_fingerprint = None
    /\ Truthy(ec_entry.vendor)
    /\ Contains(lower(ec_entry.vendor), "samsung")

\* C19: a Ring doorbell hostname without vendor class and parameter list on
\* a Samsung interface gives device_type "Smart Camera" and
\* hostname_override true
C19_RingDoorbellOverridesVendor ==
    RingDoorbellOnSamsung
        => /\ ec_result.device_type = "Smart Camera"
           /\ ec_result.hostname_override = TRUE

\* the vendors listed as component manufacturers
ListedComponentManufacturers ==
    {"intel", "giga-byte", "micro-star", "asrock", "nvidia", "amd",
     "realtek", "broadcom"}

\* an Android DHCP client without hostname on a component manufacturer's
\* interface
AndroidOnComponent ==
    /\ ECReturned
    /\ ec_entry.hostname = None
    /\ Truthy(ec_entry.vendor_class)
    /\ Contains(lower(ec_entry.vendor_class), "android-dhcp")
    /\ Truthy(ec_entry.vendor)
    /\ \E manufacturer \in ListedComponentManufacturers :
           Contains(lower(ec_entry.vendor), manufacturer)

\* C20: an Android DHCP client without hostname on the interface of any
\* listed component manufacturer is a Computer
C20_AndroidOnComponentIsComputer ==
    AndroidOnComponent => ec_result.device_type = "Computer"

\* the value each method of the chain writes to the method field
MethodNames ==
    <<"hostname_specific", "dhcp_fingerprint", "vendor_class",
      "iot_signature", "vendor_rules", "hostname", "vendor_inference",
      "vendor_class_context", "hardware_manufacturer_context",
      "hostname_conflict_resolution">>

\* the methods of the call that changed the device_type
DeviceTypeSteps ==
    {n \in 1..NumMethods :
         AfterMethod(n, ec_entry).device_type
             # AfterMethod(n - 1, ec_entry).device_type}

\* the method that produced the returned device_type
ProducingStep == CHOOSE n \in DeviceTypeSteps : \A m \in DeviceTypeSteps : m <= n

\* C21: in a returned result with a device_type, the method field names the
\* method of the chain that produced the device_type
C21_MethodNamesProducingStep ==
    (ECReturned /\ Truthy(ec_result.device_type))
        => ec_result.method = MethodNames[ProducingStep]

\* C22: a field that is empty in the final result is one the fallback
\* classifier has no value for: whenever the device type or the operating
\* system is still empty after the oracle and the override steps, the
\* fallback's value fills it
C22_FallbackFillsEmptyFields ==
    Finished
        => /\ ~Truthy(result.device_type)
                  => ~Truthy(FinishedFallback.device_type)
           /\ ~Truthy(result.operating_system)
                  => ~Truthy(FinishedFallback.operating_system)

\* the call has neither hostname nor vendor class nor parameter list
ManufacturerAlone ==
    /\ ~Truthy(ec_entry.hostname)
    /\ ~Truthy(ec_entry.vendor_class)
    /\ ~Truthy(ec_entry.dhcp_fingerprint)

\* vendor-name rules, vendor-substring inference, hardware manufacturer
\* context
ManufacturerSteps == {5, 7, 9}

\* no rule of the manufacturer steps matches the manufacturer string
NoManufacturerRule ==
    \A n \in ManufacturerSteps :
        ApplyMethod(n, InitialResult, ec_entry) = InitialResult

\* C23: with the manufacturer string alone, no method other than 5, 7 and 9
\* changes the result, and the returned result is the pure default when no
\* rule of these three matches
C23_ManufacturerAloneNeverGuesses ==
    ManufacturerAlone
        => /\ (ec_step \in 1..NumMethods /\ ec_step \notin ManufacturerSteps)
                  => ec_result = AfterMethod(ec_step - 1, ec_entry)
           /\ (ECReturned /\ NoManufacturerRule)
                  => ec_result = InitialResult

\* a manufacturer without a rule gave the pure default
C23_Witness ==
    /\ ManufacturerAlone
    /\ ECReturned
    /\ ec_entry.vendor = "ecobee inc."
    /\ ec_result = InitialResult

(***************************************************************************)
(* Independence of the devices of a batch.                                 *)
(***************************************************************************)
\* what the oracle client can return for the only device of a batch: a
\* parsed response or the error of a failed request
AloneClassifications ==
    {_parse_api_response(response_data) : response_data \in Responses}
        \cup {ErrorClassification(error_msg) : error_msg \in RequestErrors}

\* the results _classify_device can return for a device that is alone in
\* its batch
AloneResults(mac_address, entries) ==
    IF fingerbank_client
    THEN {ClassifyWithOracle(mac_address, entries, classification) :
              classification \in
                  {c \in AloneClassifications :
                       ~(OracleClassified(c) /\ RouteRaises(c))}}
    ELSE {ClassifyWithoutOracle(mac_address, entries)}

\* the fields of a result that other devices must not influence
SameOutcome(final, alone) ==
    /\ final.device_type = alone.device_type
    /\ final.operating_system = alone.operating_system
    /\ final.classification_method = alone.classification_method
    /\ final.overall_confidence = alone.overall_confidence
    /\ final.fingerbank_error = alone.fingerbank_error

\* C24: the result of a device in a batch is one of the results the device
\* gets from its own observations when it is alone in the batch
C24_ResultIndependentOfOtherDevices ==
    Finished
        => \E alone \in AloneResults(result.mac_address, FinishedEntries) :
               SameOutcome(result, alone)

(***************************************************************************)
(* The classification method of the final results.                         *)
(***************************************************************************)
\* the values listed for classification_method
ListedMethod(method) ==
    \/ method \in {"fingerbank", "hostname_specific", "dhcp_fingerprint",
                   "enhanced_fallback", "vendor_inference"}
    \/ StartsWith(method, "enhanced_preferred_")
    \/ StartsWith(method, "fingerbank_override_")

\* C25 as stated: the classification method of every result is one of the
\* listed values
C25_MethodListed ==
    Finished => ListedMethod(result.classification_method)

\* C25: the classification method of every result is one of the listed
\* values, or its initial value "unknown" when no step produced a device
\* type
C25_MethodListedOrUnknown ==
    Finished
        => \/ ListedMethod(result.classification_method)
           \/ /\ result.classification_method = "unknown"
              /\ ~Truthy(result.device_type)

\* a device that no step classified
C25_Witness ==
    /\ Finished
    /\ result.classification_method = "unknown"
    /\ result.device_type = None
    /\ result.classification = "Unknown"

(***************************************************************************)
(* _classify_device called on one device whose oracle answer is given      *)
(* (SpecDevice).                                                           *)
(***************************************************************************)
DeviceScores == {0, 40, 41, 60, 61, 100}

\* the device types of the oracle's answers; None: no device recognised
DeviceOracleTypes ==
    {None, "Computer", "Phone", "Smart TV", "Smart Camera", "IoT Device",
     "Gaming Console"}

DeviceHierarchies == {<<"Operating System">>, <<"Hardware Manufacturer">>}

DeviceOracleSystems == {None, "Windows OS"}

DeviceHostnames ==
    {None, "laptop-1", "Ring-Doorbell-Front", "nest-cam-2",
     "lg-tv-livingroom", "iphone-12", "galaxy-s21", "hp-printer-x",
     "ps5-console", "playstation-5", "xbox-one-den", "echo-dot-kitchen",
     "raspberrypi"}

\* an OUI outside the vendor table and the OUI of Intel
DeviceMacs == {"aa:bb:cc:00:00:01", "00:1b:21:00:00:04"}

DeviceInputs ==
    {[fingerbank_result |->
          [NoResult EXCEPT !.confidence_score = score,
                           !.confidence_level = confidence_level_of(score),
                           !.device_hierarchy =
                               IF device_type = None THEN <<>> ELSE hierarchy,
                           !.device_name =
                               IF device_type = None THEN None
                               ELSE hierarchy[1] \o "/" \o device_type,
                           !.device_type = device_type,
                           !.operating_system = operating_system],
      entry |-> Entry(mac_address, hostname, None, None, "ACK")] :
        score \in DeviceScores, device_type \in DeviceOracleTypes,
        hierarchy \in DeviceHierarchies,
        operating_system \in DeviceOracleSystems,
        hostname \in DeviceHostnames, mac_address \in DeviceMacs}

InitDevice ==
    /\ fn_args \in DeviceInputs
    /\ fn_return = <<>>
    /\ OnlyCall

\* the call returns the result of the device
DeviceCall ==
    /\ fn_return = <<>>
    /\ fn_return' =
           <<ClassifyWithOracle(fn_args.entry.mac_address, <<fn_args.entry>>,
                                fn_args.fingerbank_result)>>
    /\ UNCHANGED fn_frame

NextDevice == DeviceCall

SpecDevice == InitDevice /\ [][NextDevice]_vars

\* the oracle classified the device with a score above 60, without
\* "hardware manufacturer" in its answer, and the hostname has no critical
\* routing pattern
ConfidentOracleAnswer ==
    /\ Returned
    /\ OracleClassified(fn_args.fingerbank_result)
    /\ fn_args.fingerbank_result.confidence_score > 60
    /\ ~NamesHardwareManufacturer(fn_args.fingerbank_result)
    /\ Truthy(fn_args.entry.hostname)
           => ~_has_critical_hostname_pattern(fn_args.entry.hostname)

\* C26: a confident oracle answer is final, with method "fingerbank"; the
\* selective override fires only through its category-conflict branch, with
\* a score in 41..60
C26_ConfidentOracleAnswerStands ==
    /\ ConfidentOracleAnswer
           => /\ fn_return[1].device_type
                     = fn_args.fingerbank_result.device_type
              /\ fn_return[1].classification_method = "fingerbank"
    /\ (Returned /\ StartsWith(fn_return[1].classification_method,
                               "fingerbank_override_"))
           => /\ StartsWith(fn_return[1].classification_method,
                            "fingerbank_override_device_conflict_")
              /\ fn_args.fingerbank_result.confidence_score \in 41..60

\* a confident answer stood against a hostname of the override table
C26_Witness ==
    /\ ConfidentOracleAnswer
    /\ fn_args.entry.hostname = "nest-cam-2"
    /\ fn_args.fingerbank_result.device_type = "Computer"
    /\ fn_return[1].device_type = "Computer"
    /\ fn_return[1].classification_method = "fingerbank"

\* C27: a result whose device type replaced the oracle's (method beginning
\* with enhanced_preferred_ or fingerbank_override_) has overall confidence
\* "low" or "unknown", never "medium" or "high"
C27_OverriddenConfidenceLow ==
    Overridden => result.overall_confidence \in {"low", "unknown"}

\* an override on a device with hostname and vendor class: 40 points
C27_Witness ==
    /\ Overridden
    /\ Truthy(result.hostname)
    /\ Truthy(result.vendor_class)
    /\ ConfidencePoints(result) = 40
    /\ result.overall_confidence = "low"

\* the enhanced classification of the device of the call
DeviceFallback ==
    enhanced_classification(fn_args.entry.hostname,
                            fn_args.entry.vendor_class,
                            fn_args.entry.dhcp_fingerprint,
                            fn_return[1].vendor)

\* the enhanced classifier's device type replaced the oracle's, and its
\* result has no operating system while the oracle's answer has one
PreferredWithoutSystem ==
    /\ Returned
    /\ StartsWith(fn_return[1].classification_method, "enhanced_preferred_")
    /\ Truthy(fn_args.fingerbank_result.operating_system)
    /\ ~Truthy(DeviceFallback.operating_system)

\* C28: when the enhanced-preferred override accepts a result without
\* operating system, the operating system the oracle supplied is kept
C28_OverrideKeepsOperatingSystem ==
    PreferredWithoutSystem
        => fn_return[1].operating_system
               = fn_args.fingerbank_result.operating_system

\* C29: the device type of every result is None exactly when the
\* classification method still has its initial value "unknown"
C29_NoTypeIffMethodUnknown ==
    Finished
        => (result.device_type = None
                <=> result.classification_method = "unknown")

\* a result without device type whose operating system a step has filled
C29_Witness ==
    /\ Finished
    /\ result.device_type = None
    /\ result.classification_method = "unknown"
    /\ Truthy(result.operating_system)

(***************************************************************************)
(* _make_api_request called again and again on one client (SpecLimiter).   *)
(* The clock advances between the calls and while a request is in flight.  *)
(***************************************************************************)
MaxClock == 26

\* response.json() of a response whose body is not JSON
JsonError == "Expecting value: line 1 column 1 (char 0)"

\* how a call ended: the text of the exception raised, or the JSON returned
Raises(error_msg) == [raised |-> error_msg, response_data |-> nomatch]

Returns(response_data) == [raised |-> None, response_data |-> response_data]

InitLimiter ==
    /\ dhcp_entries = <<>>
    /\ fingerbank_client = TRUE
    /\ pc = "make_api_request"
    /\ AnalyzerLocals
    /\ Idle

\* time passes, between two calls or while the request is in flight
LimiterTick ==
    /\ now < MaxClock
    /\ now' = now + 1
    /\ UNCHANGED <<batch_vars, pc, device_vars, counter_vars, limiter_vars,
                   ec_vars, rt_vars, fn_vars>>

\* lines 220-222: the rate limiter refuses and the call raises
RequestRefused ==
    LET cleaned == _cleanup_old_requests(hourly_requests, daily_requests, now)
    IN  /\ pc = "make_api_request"
        /\ ~can_make_request(hourly_requests, daily_requests, now)
        /\ hourly_requests' = cleaned.hourly_requests
        /\ daily_requests' = cleaned.daily_requests
        /\ fn_return' =
               <<Raises(RateLimitMessage(
                     get_wait_time(cleaned.hourly_requests, now)))>>
        /\ UNCHANGED <<batch_vars, pc, device_vars, counter_vars, now,
                       ec_vars, rt_vars, fn_args>>

\* lines 220-257: the rate limiter agrees and the request is sent
RequestSent ==
    LET cleaned == _cleanup_old_requests(hourly_requests, daily_requests, now)
    IN  /\ pc = "make_api_request"
        /\ can_make_request(hourly_requests, daily_requests, now)
        /\ hourly_requests' = cleaned.hourly_requests
        /\ daily_requests' = cleaned.daily_requests
        /\ pc' = "request"
        /\ fn_return' = <<>>
        /\ UNCHANGED <<batch_vars, device_vars, counter_vars, now, ec_vars,
                       rt_vars, fn_args>>

\* line 257: the request fails after its retries, the exception propagates
RequestFailed ==
    /\ pc = "request"
    /\ \E error_msg \in RequestErrors : fn_return' = <<Raises(error_msg)>>
    /\ pc' = "make_api_request"
    /\ UNCHANGED <<batch_vars, device_vars, client_vars, ec_vars, rt_vars,
                   fn_args>>

\* lines 257-262: a response arrived; the request is recorded at the time of
\* the arrival and the body is decoded
RequestAnswered ==
    /\ pc = "request"
    /\ hourly_requests' = Append(hourly_requests, now)
    /\ daily_requests' = Append(daily_requests, now)
    /\ \/ \E response_data \in {computer90, nomatch} :
              fn_return' = <<Returns(response_data)>>
       \/ fn_return' = <<Raises(JsonError)>>
    /\ pc' = "make_api_request"
    /\ UNCHANGED <<batch_vars, device_vars, counter_vars, now, ec_vars,
                   rt_vars, fn_args>>

NextLimiter ==
    \/ LimiterTick
    \/ RequestRefused
    \/ RequestSent
    \/ RequestFailed
    \/ RequestAnswered

SpecLimiter == InitLimiter /\ [][NextLimiter]_vars

\* the number of requests recorded after start and up to start + length
RecordedWithin(start, length) ==
    Cardinality({k \in 1..Len(daily_requests) :
                    /\ daily_requests[k] > start
                    /\ daily_requests[k] <= start + length})

\* no hour and no day holds more recorded requests than its limit
WindowsWithinLimits ==
    \A start \in (0 - Day)..MaxClock :
        /\ RecordedWithin(start, Hour) <= RequestsPerHour
        /\ RecordedWithin(start, Day) <= RequestsPerDay

\* a request is in flight only if the limiter had room for it
SentWithinLimits ==
    pc = "request"
        => /\ Len(hourly_requests) < RequestsPerHour
           /\ Len(daily_requests) < RequestsPerDay

\* the step appends a time to the lists of the limiter
Records ==
    /\ Len(hourly_requests') > 0
    /\ Len(daily_requests') > 0
    /\ hourly_requests' = Append(hourly_requests, now)
    /\ daily_requests' = Append(daily_requests, now)

\* the step leaves in the lists only times that were there before
RecordsNothing ==
    /\ \A k \in 1..Len(hourly_requests') :
           \E j \in 1..Len(hourly_requests) :
               hourly_requests'[k] = hourly_requests[j]
    /\ Len(hourly_requests') <= Len(hourly_requests)
    /\ Len(daily_requests') <= Len(daily_requests)

\* the call ends with the refusal of the rate limiter
RaisesRateLimit ==
    /\ pc = "make_api_request"
    /\ fn_return' # <<>>
    /\ fn_return'[1].raised # None
    /\ StartsWith(fn_return'[1].raised, "Rate limit exceeded")

\* a step of a call at which a limit is reached refuses: nothing is sent and
\* nothing is recorded; a request is recorded only when its response arrives
LimiterStep ==
    /\ (pc = "make_api_request"
        /\ ~can_make_request(hourly_requests, daily_requests, now)
        /\ now' = now)
           => /\ pc' = "make_api_request"
              /\ RaisesRateLimit
              /\ RecordsNothing
    /\ RaisesRateLimit => RecordsNothing
    /\ Records \/ RecordsNothing
    /\ Records
           => /\ pc = "request"
              /\ fn_return'[1].raised \in {None, JsonError}

\* C30: the requests recorded by the rate limiter within any hour never
\* exceed requests_per_hour and within any day never exceed
\* requests_per_day; at a reached limit the call raises "Rate limit
\* exceeded" without sending and without recording, and a request is
\* recorded only after its response was received
C30_RateLimitRespected ==
    /\ [](WindowsWithinLimits /\ SentWithinLimits)
    /\ [][LimiterStep]_vars

\* both limits are exhausted: the hour and the day hold as many recorded
\* requests as allowed, and the last call was refused
C30_Witness ==
    /\ pc = "make_api_request"
    /\ Len(NewerThan(hourly_requests, now - Hour)) = RequestsPerHour
    /\ Len(NewerThan(daily_requests, now - Day)) = RequestsPerDay
    /\ fn_return # <<>>
    /\ fn_return[1].raised # None
    /\ StartsWith(fn_return[1].raised, "Rate limit exceeded")
    /\ \E k \in 1..Len(daily_requests) : daily_requests[k] + Hour < now

====
